---- MODULE Spec2Model ----
(***************************************************************************)
(* A model of the guest-side CMIO bridge: the yield transport (cmio.rs),   *)
(* the socket multiplexer (unix_tcp_socket.rs) and the TAP adapter         *)
(* (network.rs).  Bytes are naturals in 0..255, byte strings are           *)
(* sequences, and Rust's 0-based cursor `offset` is kept 0-based: the      *)
(* slice &data[offset..] is SubSeq(data, offset + 1, Len(data)).           *)
(***************************************************************************)
EXTENDS Naturals, Sequences, FiniteSets

VARIABLES
    pc,                 \* position of the running drive loop
    err,                \* the CmioError the loop returned with (<<>> while running)
    tx_length,          \* Cmio.tx_length (Ctx)
    rx_length,          \* Cmio.rx_length (Crx)
    yields,             \* history: the yields issued in this iteration of the loop
    data,               \* process_received_data: the request batch
    offset,             \* process_received_data: the cursor
    responses,          \* process_received_data: the accumulated response bytes
    unix_connections,   \* SocketManager.unix_connections: id -> (path, stream)
    tcp_connections,    \* SocketManager.tcp_connections: id -> (path, stream)
    reqs,               \* history: the messages the host composed the batch from
    dispatched,         \* history: the messages dispatched, with cursor and I/O outcome
    respList,           \* history: the responses of the batch, one per handler
    packets,            \* run_loop (TAP): the frames drained in this iteration
    idx,                \* run_loop (TAP): index of the next frame of the for loop
    current_batch,      \* run_loop (TAP): the batch being filled
    current_batch_size, \* run_loop (TAP): its serialized size
    injected,           \* history: the frames sent to the TAP for the last RX payload
    held,               \* Cmio: the resources the process holds (fd, mappings)
    tx_buffer,          \* Cmio.tx_buffer: the bytes of the shared TX region
    rx_buffer,          \* Cmio.rx_buffer: the bytes of the shared RX region
    call,               \* history: the arguments of the last yield_with_buffer
    ioctl,              \* history: the YIELD ioctls the last call issued
    ret,                \* history: what the last yield_with_buffer returned
    test_message,       \* codec: the SocketMessage to serialize
    deserialized,       \* codec: what deserialize returned
    handles             \* main: the owners of the Cmio values that are alive

vars == <<pc, err, tx_length, rx_length, yields, data, offset, responses,
          unix_connections, tcp_connections, reqs, dispatched, respList,
          packets, idx, current_batch, current_batch_size, injected,
          held, tx_buffer, rx_buffer, call, ioctl, ret, test_message, deserialized,
          handles>>

sockVars == <<data, offset, responses, unix_connections, tcp_connections,
              reqs, dispatched, respList>>
tapVars == <<packets, idx, current_batch, current_batch_size, injected>>
cmioVars == <<held, tx_buffer, rx_buffer, call, ioctl, ret>>
codecVars == <<test_message, deserialized>>
mainVars == <<handles>>

----------------------------------------------------------------------------
(* Bounds of the model *)

\* most messages the host puts in one request batch
MaxMsgs == 2
\* the smaller of the TX capacities SETUP reports in socket mode
SockCtx == 20
\* RX capacity reported by SETUP
Crx == 128
\* most yields recorded in one iteration of the TAP loop
MaxYields == 4
\* longest frame the TAP delivers
MaxFrameLen == 4
\* most frames the TAP delivers in one drain
MaxFrames == 3
\* The longest TX and RX buffer of the transport followed byte by byte
MaxBuf == 2
\* The longest RX payload handed to process_received_data of the TAP adapter
MaxRxLen == 5

----------------------------------------------------------------------------
(* Program constants *)

HTIF_DEVICE_YIELD == 2
HTIF_YIELD_CMD_MANUAL == 1
UNIX_SOCKET_CMD == 67
TAP_RXTX_CMD == 66

MSG_TYPE_UNIX_CONNECT == 1
MSG_TYPE_UNIX_SEND == 2
MSG_TYPE_UNIX_RECEIVE == 3
MSG_TYPE_UNIX_CLOSE == 4
MSG_TYPE_TCP_CONNECT == 5
MSG_TYPE_TCP_SEND == 6
MSG_TYPE_TCP_RECEIVE == 7
MSG_TYPE_TCP_CLOSE == 8
MAX_PATH_LENGTH == 108
\* The length of the data of tests::test_large_data
LargeDataLen == 1024
\* The length of the buffer a RECEIVE handler reads into
ReadBufferLen == 4096

----------------------------------------------------------------------------
(* Byte strings *)

RECURSIVE Pow(_, _)
Pow(b, k) == IF k = 0 THEN 1 ELSE b * Pow(b, k - 1)

\* to_be_bytes of a k-byte unsigned integer (the value is taken modulo 2^(8k))
to_be_bytes(n, k) == [i \in 1..k |-> (n \div Pow(256, k - i)) % 256]

RECURSIVE from_be_bytes(_)
from_be_bytes(s) ==
    IF s = <<>> THEN 0
    ELSE from_be_bytes(SubSeq(s, 1, Len(s) - 1)) * 256 + s[Len(s)]

SeqsUpTo(S, n) == UNION {[1..k -> S] : k \in 0..n}

RECURSIVE Concat(_)
Concat(ss) == IF ss = <<>> THEN <<>> ELSE Head(ss) \o Concat(Tail(ss))

\* String::from_utf8 on the bytes the model draws: a byte below 0x80 is a
\* one-byte code point, any other byte here is not the start of a valid sequence
from_utf8_ok(bytes) == \A i \in 1..Len(bytes) : bytes[i] < 128

----------------------------------------------------------------------------
(* SocketMessage *)

SocketMessage(msg_type, socket_id, path, ip_addr, port, d) ==
    [msg_type |-> msg_type, socket_id |-> socket_id, path |-> path,
     ip_addr |-> ip_addr, port |-> port, data |-> d]

\* serialize with the port in little-endian byte order
serialize_port_le(m) ==
    <<m.msg_type>> \o to_be_bytes(m.socket_id, 4) \o
    (IF m.msg_type = MSG_TYPE_UNIX_CONNECT
        THEN <<Len(m.path) % 256>> \o m.path
     ELSE IF m.msg_type = MSG_TYPE_TCP_CONNECT
        THEN m.ip_addr \o <<m.port % 256, m.port \div 256>>
     ELSE to_be_bytes(Len(m.data), 4) \o m.data)

serialize(m) ==
    <<m.msg_type>> \o to_be_bytes(m.socket_id, 4) \o
    (IF m.msg_type = MSG_TYPE_UNIX_CONNECT
        THEN <<Len(m.path) % 256>> \o m.path
     ELSE IF m.msg_type = MSG_TYPE_TCP_CONNECT
        THEN m.ip_addr \o to_be_bytes(m.port, 2)
     ELSE to_be_bytes(Len(m.data), 4) \o m.data)

NoMessage == SocketMessage(0, 0, <<>>, <<0, 0, 0, 0>>, 0, <<>>)
DeserializeErr == [ok |-> FALSE, msg |-> NoMessage]

\* deserialize that takes the bytes that are there when data_len declares more
deserialize_short_data_accepted(d) ==
    IF Len(d) < 5 THEN DeserializeErr
    ELSE
      LET msg_type == d[1]
          socket_id == from_be_bytes(SubSeq(d, 2, 5))
      IN
      IF msg_type = MSG_TYPE_UNIX_CONNECT THEN
          IF Len(d) < 5 + 1 THEN DeserializeErr
          ELSE LET path_len == d[6]
               IN IF Len(d) < 6 + path_len THEN DeserializeErr
                  ELSE LET path_bytes == SubSeq(d, 7, 6 + path_len)
                       IN IF ~from_utf8_ok(path_bytes) THEN DeserializeErr
                          ELSE [ok |-> TRUE,
                                msg |-> SocketMessage(msg_type, socket_id, path_bytes,
                                                      <<0, 0, 0, 0>>, 0, <<>>)]
      ELSE IF msg_type = MSG_TYPE_TCP_CONNECT THEN
          IF Len(d) < 5 + 6 THEN DeserializeErr
          ELSE [ok |-> TRUE,
                msg |-> SocketMessage(msg_type, socket_id, <<>>, SubSeq(d, 6, 9),
                                      from_be_bytes(SubSeq(d, 10, 11)), <<>>)]
      ELSE
          IF Len(d) < 5 + 4 THEN DeserializeErr
          ELSE [ok |-> TRUE,
                msg |-> SocketMessage(msg_type, socket_id, <<>>, <<0, 0, 0, 0>>, 0,
                                      SubSeq(d, 10, Len(d)))]

\* The number of leading bytes of `d` that deserialize indexes
deserialize_reads(d) ==
    IF Len(d) < 5 THEN 0
    ELSE IF d[1] = MSG_TYPE_UNIX_CONNECT THEN
        IF Len(d) < 5 + 1 THEN 5
        ELSE IF Len(d) < 6 + d[6] THEN 6
        ELSE 6 + d[6]
    ELSE IF d[1] = MSG_TYPE_TCP_CONNECT THEN
        IF Len(d) < 5 + 6 THEN 5 ELSE 11
    ELSE
        IF Len(d) < 5 + 4 THEN 5
        ELSE IF Len(d) < 9 + from_be_bytes(SubSeq(d, 6, 9)) THEN 9
        ELSE 9 + from_be_bytes(SubSeq(d, 6, 9))

deserialize(d) ==
    IF Len(d) < 5 THEN DeserializeErr
    ELSE
      LET msg_type == d[1]
          socket_id == from_be_bytes(SubSeq(d, 2, 5))
      IN
      IF msg_type = MSG_TYPE_UNIX_CONNECT THEN
          IF Len(d) < 5 + 1 THEN DeserializeErr
          ELSE LET path_len == d[6]
               IN IF Len(d) < 6 + path_len THEN DeserializeErr
                  ELSE LET path_bytes == SubSeq(d, 7, 6 + path_len)
                       IN IF ~from_utf8_ok(path_bytes) THEN DeserializeErr
                          ELSE [ok |-> TRUE,
                                msg |-> SocketMessage(msg_type, socket_id, path_bytes,
                                                      <<0, 0, 0, 0>>, 0, <<>>)]
      ELSE IF msg_type = MSG_TYPE_TCP_CONNECT THEN
          IF Len(d) < 5 + 6 THEN DeserializeErr
          ELSE [ok |-> TRUE,
                msg |-> SocketMessage(msg_type, socket_id, <<>>, SubSeq(d, 6, 9),
                                      from_be_bytes(SubSeq(d, 10, 11)), <<>>)]
      ELSE
          IF Len(d) < 5 + 4 THEN DeserializeErr
          ELSE LET data_len == from_be_bytes(SubSeq(d, 6, 9))
               IN IF Len(d) < 9 + data_len THEN DeserializeErr
                  ELSE [ok |-> TRUE,
                        msg |-> SocketMessage(msg_type, socket_id, <<>>, <<0, 0, 0, 0>>, 0,
                                              SubSeq(d, 10, 9 + data_len))]

----------------------------------------------------------------------------
(* Cmio: the yield transport *)

\* What the host does with one YIELD ioctl: it fails, or it resumes the guest
\* with a response length n and the RX buffer holding rx in its first bytes.
HostOutcome(kind, n, rx) == [kind |-> kind, n |-> n, rx |-> rx]
HostFail == HostOutcome("fail", 0, <<>>)
HostOk(rx) == HostOutcome("ok", Len(rx), rx)

\* CmioError values: the variant name, then its fields
BufferTooLarge(size, max) == <<"BufferTooLarge", size, max>>
SetupError == <<"SetupError">>
NoError == <<>>

YieldResult(e, issued, rx) == [err |-> e, issued |-> issued, rx |-> rx]

\* yield_with_buffer without the check of the TX length
yield_with_buffer_tx_unchecked(tx_data, h) ==
    IF h.kind = "fail" THEN YieldResult(SetupError, TRUE, <<>>)
    ELSE IF h.n > rx_length
        THEN YieldResult(BufferTooLarge(h.n, rx_length), TRUE, <<>>)
    ELSE YieldResult(NoError, TRUE, SubSeq(h.rx, 1, h.n))

\* yield_with_buffer with >= for > in the check of the response length
yield_with_buffer_rx_full_refused(tx_data, h) ==
    IF Len(tx_data) > tx_length
        THEN YieldResult(BufferTooLarge(Len(tx_data), tx_length), FALSE, <<>>)
    ELSE IF h.kind = "fail" THEN YieldResult(SetupError, TRUE, <<>>)
    ELSE IF h.n >= rx_length
        THEN YieldResult(BufferTooLarge(h.n, rx_length), TRUE, <<>>)
    ELSE YieldResult(NoError, TRUE, SubSeq(h.rx, 1, h.n))

\* Cmio::yield_with_buffer against host outcome h.  `issued` tells whether the
\* YIELD ioctl was reached.
yield_with_buffer(tx_data, h) ==
    IF Len(tx_data) > tx_length
        THEN YieldResult(BufferTooLarge(Len(tx_data), tx_length), FALSE, <<>>)
    ELSE IF h.kind = "fail" THEN YieldResult(SetupError, TRUE, <<>>)
    ELSE IF h.n > rx_length
        THEN YieldResult(BufferTooLarge(h.n, rx_length), TRUE, <<>>)
    ELSE YieldResult(NoError, TRUE, SubSeq(h.rx, 1, h.n))

\* history: one yield, as the host sees it, with the length of the RX payload
\* that yield_with_buffer returned
YieldRecord(reason, tx_data, rx) ==
    [dev |-> HTIF_DEVICE_YIELD, cmd |-> HTIF_YIELD_CMD_MANUAL,
     reason |-> reason, tx |-> tx_data, rx_len |-> Len(rx)]

\* history: `ys` extended by the yield, when the ioctl was reached
Logged(ys, reason, tx_data, r) ==
    IF r.issued THEN Append(ys, YieldRecord(reason, tx_data, r.rx)) ELSE ys

----------------------------------------------------------------------------
(* Cmio: the descriptor word, the buffers and the resources *)

\* A u64 is its eight bytes, most significant first: byte 1 holds bits 63..56
\* and byte 8 bits 7..0.  `x as u64` for a k-byte unsigned x:
as_u64(n, k) == [i \in 1..(8 - k) |-> 0] \o to_be_bytes(n, k)

\* w << bits and w >> bits on a u64, for a whole number of bytes
shl(w, bits) ==
    [i \in 1..8 |-> IF i + bits \div 8 <= 8 THEN w[i + bits \div 8] ELSE 0]
shr(w, bits) ==
    [i \in 1..8 |-> IF i - bits \div 8 >= 1 THEN w[i - bits \div 8] ELSE 0]

RECURSIVE BitOr(_, _)
BitOr(a, b) ==
    IF a = 0 THEN b
    ELSE IF b = 0 THEN a
    ELSE (IF a % 2 = 1 \/ b % 2 = 1 THEN 1 ELSE 0) + 2 * BitOr(a \div 2, b \div 2)

\* v | w on two u64
bitor(v, w) == [i \in 1..8 |-> BitOr(v[i], w[i])]

\* `w as u8`, `w as u16`, `w as u32`: the low bytes of the word
as_u8(w) == w[8]
as_u16(w) == from_be_bytes(SubSeq(w, 7, 8))
as_u32(w) == from_be_bytes(SubSeq(w, 5, 8))

CmioYield(dev, cmd, reason, d) == [dev |-> dev, cmd |-> cmd, reason |-> reason, data |-> d]

\* pack with the reason shifted by 40 bits instead of 32
packed_reason_misplaced(yield_data) ==
    bitor(bitor(shl(as_u64(yield_data.dev, 1), 56), shl(as_u64(yield_data.cmd, 1), 48)),
          bitor(shl(as_u64(yield_data.reason, 2), 40), as_u64(yield_data.data, 4)))

\* `packed` of Cmio::yield_
packed(yield_data) ==
    bitor(bitor(shl(as_u64(yield_data.dev, 1), 56), shl(as_u64(yield_data.cmd, 1), 48)),
          bitor(shl(as_u64(yield_data.reason, 2), 32), as_u64(yield_data.data, 4)))

\* The four assignments of Cmio::yield_ after the ioctl
unpacked(req) ==
    CmioYield(as_u8(shr(req, 56)), as_u8(shr(req, 48)), as_u16(shr(req, 32)), as_u32(req))

\* ptr::copy_nonoverlapping that zeroes the rest of the buffer as well
copy_and_clear(buffer, tx_data) ==
    tx_data \o [i \in 1..(Len(buffer) - Len(tx_data)) |-> 0]

\* ptr::copy_nonoverlapping(tx_data, tx_buffer, tx_data.len())
copy_nonoverlapping(buffer, tx_data) ==
    tx_data \o SubSeq(buffer, Len(tx_data) + 1, Len(buffer))

\* The other variants of CmioError
OpenError == <<"OpenError">>
MapError == <<"MapError">>

\* What a process can hold of the device: the descriptor and the two mappings
AllResources == {"fd", "tx_map", "rx_map"}

\* history before the first call
NoCall == [dev |-> 0, cmd |-> 0, reason |-> 0, tx |-> <<>>, tx_before |-> <<>>, made |-> FALSE]
NoReturn == [err |-> NoError, rx |-> <<>>, reason |-> 0]

\* The buffer lengths SETUP reports
CmioLens == 1..MaxBuf

\* What the TX region holds when it is mapped
FreshTx(n) == [i \in 1..n |-> 5]

\* What the host writes to the RX region before it resumes the guest
HostRx(n) == {[i \in 1..n |-> 3], [i \in 1..n |-> 3 + (i % 2)]}

\* The words the host leaves in `req`: the request's fields with a response
\* length from 0 to past Crx, or every field changed (data = 65536).  The data
\* field stays below 2^31.
HostWords ==
    {<<HTIF_DEVICE_YIELD, HTIF_YIELD_CMD_MANUAL, 0, TAP_RXTX_CMD, 0, 0, 0, n>> :
        n \in 0..(MaxBuf + 1)} \cup
    {<<255, 254, 1, 2, 0, 1, 0, 0>>}

\* The (dev, cmd, reason) the callers pass, and the extremes of the field widths
CallArgs ==
    {<<HTIF_DEVICE_YIELD, HTIF_YIELD_CMD_MANUAL, TAP_RXTX_CMD>>,
     <<HTIF_DEVICE_YIELD, HTIF_YIELD_CMD_MANUAL, UNIX_SOCKET_CMD>>,
     <<255, 255, 65535>>}

\* The TX payloads: up to one byte more than the longest TX buffer
TxPayloads == SeqsUpTo({1, 2}, MaxBuf + 1)

----------------------------------------------------------------------------
(* Socket multiplexer: the handlers *)

\* HashMap::insert that keeps the value of a key already present
Insert_keeps_prior(connections, id, entry) ==
    [x \in (DOMAIN connections) \cup {id} |->
        IF x \in DOMAIN connections THEN connections[x] ELSE entry]

\* HashMap::insert(id, (path, stream)): the value of a key already present is
\* replaced (and dropped, which closes its stream)
Insert(connections, id, entry) ==
    [x \in (DOMAIN connections) \cup {id} |-> IF x = id THEN entry ELSE connections[x]]

Remove(connections, id) ==
    [x \in (DOMAIN connections) \ {id} |-> connections[x]]

EmptyTable == [x \in {} |-> <<>>]

\* The value a successful connect returns is a stream of its own.  A stream is
\* named by the kind of its table, the id it was opened for and a mark that
\* tells it from the stream the table holds for that id, if it holds one.
NewStream(connections, id) ==
    IF id \in DOMAIN connections THEN 1 - connections[id][2] ELSE 0

\* The streams reachable from a table of this kind
Streams(kind, connections) ==
    {<<kind, x, connections[x][2]>> : x \in DOMAIN connections}

HandlerResult(ok, resp, connections) ==
    [ok |-> ok, resp |-> resp, conns |-> connections]

\* The response every handler builds: SocketMessage::new(type, id, path, ip, port, d).serialize()
Response(msg_type, message, d) ==
    serialize(SocketMessage(msg_type, message.socket_id, message.path,
                            message.ip_addr, message.port, d))

\* UnixStream::connect refuses an empty path, a path holding a NUL byte and a
\* path that does not fit the 108 bytes of sun_path with its terminator;
\* otherwise the attempt succeeds or fails as the peer decides.
ConnectOutcomes(path) ==
    IF \/ path = <<>>
       \/ \E i \in 1..Len(path) : path[i] = 0
       \/ Len(path) >= MAX_PATH_LENGTH
       THEN {FALSE}
    ELSE BOOLEAN

handle_unix_connect(message, connections, connected, stream) ==
    IF ~connected THEN HandlerResult(FALSE, <<>>, connections)
    ELSE HandlerResult(TRUE, Response(MSG_TYPE_UNIX_CONNECT, message, <<0>>),
                       Insert(connections, message.socket_id, <<message.path, stream>>))

handle_unix_send(message, connections, written) ==
    IF message.socket_id \in DOMAIN connections THEN
        IF ~written THEN HandlerResult(FALSE, <<>>, connections)
        ELSE HandlerResult(TRUE, Response(MSG_TYPE_UNIX_SEND, message, <<0>>), connections)
    ELSE HandlerResult(TRUE, Response(MSG_TYPE_UNIX_SEND, message, <<1>>), connections)

\* What stream.read does on a non-blocking stream: Ok(n) with the n bytes read,
\* WouldBlock, or another error
ReadOutcome(kind, bytes) == [kind |-> kind, bytes |-> bytes]
ReadData == {<<>>, <<1>>}
ReadOutcomes ==
    {ReadOutcome("ok", b) : b \in ReadData} \cup
    {ReadOutcome("WouldBlock", <<>>), ReadOutcome("error", <<>>)}

\* What stream.read returns with on a stream left in blocking mode: Ok(n) (n = 0
\* once the peer has closed) or an error, never WouldBlock
BlockingReadReturns ==
    {ReadOutcome("ok", b) : b \in ReadData} \cup {ReadOutcome("error", <<>>)}

\* UnixStream::connect returns a stream in blocking mode and handle_unix_connect
\* does not change the mode: a read with nothing pending sleeps in the system
\* call ("blocks") until the peer sends, closes or the stream fails
UnixReadOutcomes == BlockingReadReturns \cup {ReadOutcome("blocks", <<>>)}

handle_unix_receive(message, connections, read) ==
    IF message.socket_id \in DOMAIN connections THEN
        IF read.kind = "ok"
            THEN HandlerResult(TRUE, Response(MSG_TYPE_UNIX_RECEIVE, message, read.bytes),
                               connections)
        ELSE IF read.kind = "WouldBlock"
            THEN HandlerResult(TRUE, Response(MSG_TYPE_UNIX_RECEIVE, message, <<>>),
                               connections)
        ELSE HandlerResult(FALSE, <<>>, connections)
    ELSE HandlerResult(TRUE, Response(MSG_TYPE_UNIX_RECEIVE, message, <<1>>), connections)

handle_unix_close(message, connections) ==
    IF message.socket_id \in DOMAIN connections
        THEN HandlerResult(TRUE, Response(MSG_TYPE_UNIX_CLOSE, message, <<0>>),
                           Remove(connections, message.socket_id))
    ELSE HandlerResult(TRUE, Response(MSG_TYPE_UNIX_CLOSE, message, <<1>>), connections)

\* TcpStream::connect, then set_nonblocking(true): either may fail
TcpConnectOutcomes == {"ok", "connect_failed", "set_nonblocking_failed"}

handle_tcp_connect(message, connections, outcome, stream) ==
    IF outcome # "ok" THEN HandlerResult(FALSE, <<>>, connections)
    ELSE HandlerResult(TRUE, Response(MSG_TYPE_TCP_CONNECT, message, <<0>>),
                       Insert(connections, message.socket_id, <<message.path, stream>>))

\* handle_tcp_send that answers a failed write with status 1
handle_tcp_send_failure_answered(message, connections, written) ==
    IF message.socket_id \in DOMAIN connections THEN
        IF ~written
            THEN HandlerResult(TRUE, Response(MSG_TYPE_TCP_SEND, message, <<1>>), connections)
        ELSE HandlerResult(TRUE, Response(MSG_TYPE_TCP_SEND, message, <<0>>), connections)
    ELSE HandlerResult(TRUE, Response(MSG_TYPE_TCP_SEND, message, <<1>>), connections)

handle_tcp_send(message, connections, written) ==
    IF message.socket_id \in DOMAIN connections THEN
        IF ~written THEN HandlerResult(FALSE, <<>>, connections)
        ELSE HandlerResult(TRUE, Response(MSG_TYPE_TCP_SEND, message, <<0>>), connections)
    ELSE HandlerResult(TRUE, Response(MSG_TYPE_TCP_SEND, message, <<1>>), connections)

\* handle_tcp_receive without the WouldBlock arm: every read error is returned
handle_tcp_receive_would_block_fatal(message, connections, read) ==
    IF message.socket_id \in DOMAIN connections THEN
        IF read.kind = "ok"
            THEN HandlerResult(TRUE, Response(MSG_TYPE_TCP_RECEIVE, message, read.bytes),
                               connections)
        ELSE HandlerResult(FALSE, <<>>, connections)
    ELSE HandlerResult(TRUE, Response(MSG_TYPE_TCP_RECEIVE, message, <<1>>), connections)

handle_tcp_receive(message, connections, read) ==
    IF message.socket_id \in DOMAIN connections THEN
        IF read.kind = "ok"
            THEN HandlerResult(TRUE, Response(MSG_TYPE_TCP_RECEIVE, message, read.bytes),
                               connections)
        ELSE IF read.kind = "WouldBlock"
            THEN HandlerResult(TRUE, Response(MSG_TYPE_TCP_RECEIVE, message, <<>>),
                               connections)
        ELSE HandlerResult(FALSE, <<>>, connections)
    ELSE HandlerResult(TRUE, Response(MSG_TYPE_TCP_RECEIVE, message, <<1>>), connections)

\* handle_tcp_close with the removal forgotten: it answers as the code does and
\* leaves the entry in the table
handle_tcp_close_keeps_entry(message, connections) ==
    IF message.socket_id \in DOMAIN connections
        THEN HandlerResult(TRUE, Response(MSG_TYPE_TCP_CLOSE, message, <<0>>), connections)
    ELSE HandlerResult(TRUE, Response(MSG_TYPE_TCP_CLOSE, message, <<1>>), connections)

handle_tcp_close(message, connections) ==
    IF message.socket_id \in DOMAIN connections
        THEN HandlerResult(TRUE, Response(MSG_TYPE_TCP_CLOSE, message, <<0>>),
                           Remove(connections, message.socket_id))
    ELSE HandlerResult(TRUE, Response(MSG_TYPE_TCP_CLOSE, message, <<1>>), connections)

----------------------------------------------------------------------------
(* Socket multiplexer: what the host sends *)

\* The request messages the host composes batches from: the eight types over
\* ids 1 and 2, one message of an unknown type (9), and one UNIX_CONNECT whose
\* id and path bytes are themselves the bytes of a message.  Every byte drawn is
\* below 0x80, so that each u32 the decoder reads stays below 2^31.
Ip == <<10, 0, 0, 1>>
NoIp == <<0, 0, 0, 0>>
ReqMsgs ==
    { SocketMessage(MSG_TYPE_UNIX_CONNECT, 1, <<97>>, NoIp, 0, <<>>),
      SocketMessage(MSG_TYPE_UNIX_CONNECT, 2, <<97, 98, 99>>, NoIp, 0, <<>>),
      SocketMessage(MSG_TYPE_UNIX_CONNECT, 262144, <<120, 0, 0, 0, 0>>, NoIp, 0, <<>>),
      SocketMessage(MSG_TYPE_UNIX_SEND, 1, <<>>, NoIp, 0, <<7>>),
      SocketMessage(MSG_TYPE_UNIX_RECEIVE, 1, <<>>, NoIp, 0, <<>>),
      SocketMessage(MSG_TYPE_UNIX_CLOSE, 1, <<>>, NoIp, 0, <<>>),
      SocketMessage(MSG_TYPE_UNIX_CLOSE, 2, <<>>, NoIp, 0, <<>>),
      SocketMessage(MSG_TYPE_TCP_CONNECT, 1, <<>>, Ip, 1080, <<>>),
      SocketMessage(MSG_TYPE_TCP_CONNECT, 2, <<>>, Ip, 80, <<>>),
      SocketMessage(MSG_TYPE_TCP_SEND, 1, <<>>, NoIp, 0, <<7>>),
      SocketMessage(MSG_TYPE_TCP_RECEIVE, 1, <<>>, NoIp, 0, <<>>),
      SocketMessage(MSG_TYPE_TCP_CLOSE, 1, <<>>, NoIp, 0, <<>>),
      SocketMessage(MSG_TYPE_TCP_CLOSE, 2, <<>>, NoIp, 0, <<>>),
      SocketMessage(9, 1, <<>>, NoIp, 0, <<7>>) }


\* A batch in which the two bytes the cursor loses after a TCP_CONNECT are made
\* up by the messages that follow, so that the last message is decoded where it
\* starts: TCP_CONNECT(1), TCP_CONNECT(0) to 0.4.0.0:0, then a TCP message on id 1.
ResyncBatches ==
    { << SocketMessage(MSG_TYPE_TCP_CONNECT, 1, <<>>, Ip, 768, <<>>),
         SocketMessage(MSG_TYPE_TCP_CONNECT, 0, <<>>, <<0, 4, 0, 0>>, 0, <<>>),
         SocketMessage(t, 1, <<>>, NoIp, 0, <<>>) >> :
      t \in {MSG_TYPE_TCP_SEND, MSG_TYPE_TCP_RECEIVE, MSG_TYPE_TCP_CLOSE} }

Batches == SeqsUpTo(ReqMsgs, MaxMsgs) \cup ResyncBatches

\* The TX capacities SETUP may report in socket mode: one that some response
\* batches exceed, and one that fits every response batch of the model
SockCtxValues == {SockCtx, 4 * SockCtx}

\* The bytes of a batch: the concatenation of its messages, no delimiters
BatchBytes(ms) == Concat([i \in 1..Len(ms) |-> serialize(ms[i])])

\* What the host may answer a yield with in socket mode
SockHostOutcomes(rq) ==
    IF rq = <<>>
        THEN {HostOk(<<>>), HostFail, HostOutcome("ok", rx_length + 1, <<>>)}
    ELSE {HostOk(BatchBytes(rq))}

\* What the host answers with where run_loop does not look at the RX payload:
\* nothing, or a batch of one request
ShortBatches == {<<>>, <<SocketMessage(MSG_TYPE_UNIX_CLOSE, 1, <<>>, NoIp, 0, <<>>)>>}

----------------------------------------------------------------------------
(* Socket multiplexer: run_loop and process_received_data *)

\* The first yield of an iteration of run_loop and the branch on its RX payload
PollYield ==
    /\ pc = "poll"
    /\ \E rq \in Batches : \E h \in SockHostOutcomes(rq) :
         LET r == yield_with_buffer(<<>>, h) IN
         /\ yields' = Logged(<<>>, UNIX_SOCKET_CMD, <<>>, r)
         /\ IF r.err # NoError
               THEN /\ pc' = "error" /\ err' = r.err
                    /\ UNCHANGED <<data, reqs>>
            ELSE /\ pc' = IF r.rx # <<>> THEN "process" ELSE "idle"
                 /\ err' = err
                 /\ data' = r.rx /\ reqs' = rq
    /\ UNCHANGED <<tx_length, rx_length, offset, responses, dispatched, respList,
                   unix_connections, tcp_connections>>
    /\ UNCHANGED <<tapVars, cmioVars, codecVars, mainVars>>

\* run_loop without the yield of the else branch: an idle iteration ends after
\* its polling yield
IdleYield_skipped ==
    /\ pc = "idle"
    /\ pc' = "iter_end"
    /\ UNCHANGED <<err, tx_length, rx_length, yields>>
    /\ UNCHANGED <<sockVars, tapVars, cmioVars, codecVars, mainVars>>

\* The second yield of an idle iteration; its RX payload is not looked at
IdleYield ==
    /\ pc = "idle"
    /\ \E rq \in ShortBatches : \E h \in SockHostOutcomes(rq) :
         LET r == yield_with_buffer(<<>>, h) IN
         /\ yields' = Logged(yields, UNIX_SOCKET_CMD, <<>>, r)
         /\ IF r.err # NoError
               THEN pc' = "error" /\ err' = r.err
            ELSE pc' = "iter_end" /\ err' = err
    /\ UNCHANGED <<tx_length, rx_length>>
    /\ UNCHANGED <<sockVars, tapVars, cmioVars, codecVars, mainVars>>

\* The end of the loop body: the next iteration starts, with a fresh history
NextIteration ==
    /\ pc = "iter_end"
    /\ pc' = "poll"
    /\ yields' = <<>>
    /\ data' = <<>> /\ offset' = 0 /\ responses' = <<>>
    /\ reqs' = <<>> /\ dispatched' = <<>> /\ respList' = <<>>
    /\ UNCHANGED <<err, tx_length, rx_length, unix_connections, tcp_connections>>
    /\ UNCHANGED <<tapVars, cmioVars, codecVars, mainVars>>

\* The message the while loop of process_received_data decodes at the cursor
Decoded == deserialize(SubSeq(data, offset + 1, Len(data)))

InLoop == pc = "process" /\ offset < Len(data)

\* msg_size, by which process_received_data advances the cursor
msg_size(message) == 1 + 4 + 4 + Len(message.data)

\* history: the outcome of the stream I/O of a handler, "none" when the id was
\* not in the table and the handler made no system call
Used(connections, outcome) ==
    IF Decoded.msg.socket_id \in DOMAIN connections THEN outcome ELSE "none"

\* history: the outcome of the read of a RECEIVE handler, with the bytes read
UsedRead(connections, read) ==
    IF Decoded.msg.socket_id \in DOMAIN connections THEN read
    ELSE ReadOutcome("none", <<>>)

\* The rest of one iteration of the while loop once the handler has returned
AfterHandler(message, result, env) ==
    /\ dispatched' = Append(dispatched, [at |-> offset, msg |-> message, env |-> env])
    /\ IF result.ok
          THEN /\ responses' = responses \o result.resp
               /\ respList' = Append(respList, result.resp)
               /\ offset' = offset + msg_size(message)
               /\ pc' = "process" /\ err' = err
       ELSE /\ pc' = "error" /\ err' = SetupError
            /\ UNCHANGED <<responses, respList, offset>>
    /\ UNCHANGED <<tx_length, rx_length, yields, data, reqs>>
    /\ UNCHANGED <<tapVars, cmioVars, codecVars, mainVars>>

DispatchUnixConnect ==
    /\ InLoop /\ Decoded.ok /\ Decoded.msg.msg_type = MSG_TYPE_UNIX_CONNECT
    /\ \E connected \in ConnectOutcomes(Decoded.msg.path) :
         LET result == handle_unix_connect(Decoded.msg, unix_connections, connected,
                                           NewStream(unix_connections,
                                                     Decoded.msg.socket_id)) IN
         /\ unix_connections' = result.conns
         /\ UNCHANGED tcp_connections
         /\ AfterHandler(Decoded.msg, result, IF connected THEN "connected" ELSE "refused")

DispatchUnixSend ==
    /\ InLoop /\ Decoded.ok /\ Decoded.msg.msg_type = MSG_TYPE_UNIX_SEND
    /\ \E written \in BOOLEAN :
         LET result == handle_unix_send(Decoded.msg, unix_connections, written) IN
         /\ unix_connections' = result.conns
         /\ UNCHANGED tcp_connections
         /\ AfterHandler(Decoded.msg, result, Used(unix_connections, IF written THEN "written" ELSE "write_failed"))

\* handle_unix_receive up to the return of stream.read, or to the point where
\* the guest sleeps in it
DispatchUnixReceive ==
    /\ InLoop /\ Decoded.ok /\ Decoded.msg.msg_type = MSG_TYPE_UNIX_RECEIVE
    /\ \E read \in UnixReadOutcomes :
         IF Decoded.msg.socket_id \in DOMAIN unix_connections /\ read.kind = "blocks"
            THEN /\ pc' = "blocked_read"
                 /\ UNCHANGED <<err, tx_length, rx_length, yields>>
                 /\ UNCHANGED <<sockVars, tapVars, cmioVars, codecVars, mainVars>>
         ELSE LET result == handle_unix_receive(Decoded.msg, unix_connections, read) IN
              /\ unix_connections' = result.conns
              /\ UNCHANGED tcp_connections
              /\ AfterHandler(Decoded.msg, result, UsedRead(unix_connections, read))

\* The peer wakes the guest sleeping in stream.read: the rest of handle_unix_receive
UnixReadReturns ==
    /\ pc = "blocked_read"
    /\ \E read \in BlockingReadReturns :
         LET result == handle_unix_receive(Decoded.msg, unix_connections, read) IN
         /\ unix_connections' = result.conns
         /\ UNCHANGED tcp_connections
         /\ AfterHandler(Decoded.msg, result, read)

DispatchUnixClose ==
    /\ InLoop /\ Decoded.ok /\ Decoded.msg.msg_type = MSG_TYPE_UNIX_CLOSE
    /\ LET result == handle_unix_close(Decoded.msg, unix_connections) IN
         /\ unix_connections' = result.conns
         /\ UNCHANGED tcp_connections
         /\ AfterHandler(Decoded.msg, result, "none")

DispatchTcpConnect ==
    /\ InLoop /\ Decoded.ok /\ Decoded.msg.msg_type = MSG_TYPE_TCP_CONNECT
    /\ \E outcome \in TcpConnectOutcomes :
         LET result == handle_tcp_connect(Decoded.msg, tcp_connections, outcome,
                                          NewStream(tcp_connections,
                                                    Decoded.msg.socket_id)) IN
         /\ tcp_connections' = result.conns
         /\ UNCHANGED unix_connections
         /\ AfterHandler(Decoded.msg, result, IF outcome = "ok" THEN "connected" ELSE "refused")

DispatchTcpSend ==
    /\ InLoop /\ Decoded.ok /\ Decoded.msg.msg_type = MSG_TYPE_TCP_SEND
    /\ \E written \in BOOLEAN :
         LET result == handle_tcp_send(Decoded.msg, tcp_connections, written) IN
         /\ tcp_connections' = result.conns
         /\ UNCHANGED unix_connections
         /\ AfterHandler(Decoded.msg, result, Used(tcp_connections, IF written THEN "written" ELSE "write_failed"))

DispatchTcpReceive ==
    /\ InLoop /\ Decoded.ok /\ Decoded.msg.msg_type = MSG_TYPE_TCP_RECEIVE
    /\ \E read \in ReadOutcomes :
         LET result == handle_tcp_receive(Decoded.msg, tcp_connections, read) IN
         /\ tcp_connections' = result.conns
         /\ UNCHANGED unix_connections
         /\ AfterHandler(Decoded.msg, result, UsedRead(tcp_connections, read))

DispatchTcpClose ==
    /\ InLoop /\ Decoded.ok /\ Decoded.msg.msg_type = MSG_TYPE_TCP_CLOSE
    /\ LET result == handle_tcp_close(Decoded.msg, tcp_connections) IN
         /\ tcp_connections' = result.conns
         /\ UNCHANGED unix_connections
         /\ AfterHandler(Decoded.msg, result, "none")

\* A dispatch whose `_ =>` arm skips the message: no response, the cursor moves on
DispatchUnknown_skipped ==
    /\ InLoop /\ Decoded.ok
    /\ Decoded.msg.msg_type \notin MSG_TYPE_UNIX_CONNECT..MSG_TYPE_TCP_CLOSE
    /\ offset' = offset + msg_size(Decoded.msg)
    /\ dispatched' = Append(dispatched, [at |-> offset, msg |-> Decoded.msg, env |-> "none"])
    /\ UNCHANGED <<pc, err, tx_length, rx_length, yields, data, responses,
                   unix_connections, tcp_connections, reqs, respList>>
    /\ UNCHANGED <<tapVars, cmioVars, codecVars, mainVars>>

\* The `_ =>` arm of the dispatch: a decoded message of no known type
DispatchUnknown ==
    /\ InLoop /\ Decoded.ok
    /\ Decoded.msg.msg_type \notin MSG_TYPE_UNIX_CONNECT..MSG_TYPE_TCP_CLOSE
    /\ UNCHANGED <<unix_connections, tcp_connections>>
    /\ AfterHandler(Decoded.msg, HandlerResult(FALSE, <<>>, EmptyTable), "none")

\* DecodeError with the responses gathered so far sent to the host before the
\* error is returned
DecodeError_flushes ==
    /\ InLoop /\ ~Decoded.ok
    /\ pc' = "error" /\ err' = SetupError
    /\ yields' = IF responses # <<>>
                    THEN Append(yields, YieldRecord(UNIX_SOCKET_CMD, responses, <<>>))
                 ELSE yields
    /\ UNCHANGED <<tx_length, rx_length>>
    /\ UNCHANGED <<sockVars, tapVars, cmioVars, codecVars, mainVars>>

\* deserialize returned Err: process_received_data returns it
DecodeError ==
    /\ InLoop /\ ~Decoded.ok
    /\ pc' = "error" /\ err' = SetupError
    /\ UNCHANGED <<tx_length, rx_length, yields>>
    /\ UNCHANGED <<sockVars, tapVars, cmioVars, codecVars, mainVars>>

\* SendResponses with a response buffer that each handler overwrites instead of
\* extending: the yield carries the last response only
SendResponses_last_only ==
    /\ pc = "process" /\ offset >= Len(data)
    /\ IF respList # <<>>
          THEN \E rq \in ShortBatches : \E h \in SockHostOutcomes(rq) :
                 LET r == yield_with_buffer(respList[Len(respList)], h) IN
                 /\ yields' = Logged(yields, UNIX_SOCKET_CMD, respList[Len(respList)], r)
                 /\ IF r.err # NoError
                       THEN pc' = "error" /\ err' = r.err
                    ELSE pc' = "iter_end" /\ err' = err
       ELSE pc' = "iter_end" /\ UNCHANGED <<err, yields>>
    /\ UNCHANGED <<tx_length, rx_length>>
    /\ UNCHANGED <<sockVars, tapVars, cmioVars, codecVars, mainVars>>

\* After the while loop: all responses in a single transmission
SendResponses ==
    /\ pc = "process" /\ offset >= Len(data)
    /\ IF responses # <<>>
          THEN \E rq \in ShortBatches : \E h \in SockHostOutcomes(rq) :
                 LET r == yield_with_buffer(responses, h) IN
                 /\ yields' = Logged(yields, UNIX_SOCKET_CMD, responses, r)
                 /\ IF r.err # NoError
                       THEN pc' = "error" /\ err' = r.err
                    ELSE pc' = "iter_end" /\ err' = err
       ELSE pc' = "iter_end" /\ UNCHANGED <<err, yields>>
    /\ UNCHANGED <<tx_length, rx_length>>
    /\ UNCHANGED <<sockVars, tapVars, cmioVars, codecVars, mainVars>>

\* SocketManager::new over an opened Cmio
InitSock ==
    /\ pc = "poll" /\ err = NoError
    /\ tx_length \in SockCtxValues /\ rx_length = Crx
    /\ yields = <<>>
    /\ data = <<>> /\ offset = 0 /\ responses = <<>>
    /\ unix_connections = EmptyTable /\ tcp_connections = EmptyTable
    /\ reqs = <<>> /\ dispatched = <<>> /\ respList = <<>>
    /\ packets = <<>> /\ idx = 1 /\ current_batch = <<>> /\ current_batch_size = 0
    /\ injected = <<>>
    /\ held = AllResources /\ tx_buffer = <<>> /\ rx_buffer = <<>>
    /\ call = NoCall /\ ioctl = <<>> /\ ret = NoReturn
    /\ test_message = NoMessage /\ deserialized = DeserializeErr
    /\ handles = {"SocketManager"}

NextSock ==
    \/ PollYield
    \/ IdleYield
    \/ NextIteration
    \/ DispatchUnixConnect
    \/ DispatchUnixSend
    \/ DispatchUnixReceive
    \/ UnixReadReturns
    \/ DispatchUnixClose
    \/ DispatchTcpConnect
    \/ DispatchTcpSend
    \/ DispatchTcpReceive
    \/ DispatchTcpClose
    \/ DispatchUnknown
    \/ DecodeError
    \/ SendResponses

SpecSock == InitSock /\ [][NextSock]_vars

----------------------------------------------------------------------------
(* Socket multiplexer: process_received_data on cut request batches *)

\* A UNIX_SEND on id 1, which the cursor passes by its encoded length
LeadingSend == SocketMessage(MSG_TYPE_UNIX_SEND, 1, <<>>, NoIp, 0, <<7>>)

\* The request batches of the host cut at every byte: one message, or a
\* message after LeadingSend
Cuts(b) == {SubSeq(b, 1, n) : n \in 1..Len(b)}
\* A UNIX_CONNECT whose path is one byte longer than MAX_PATH_LENGTH
LongPathConnect ==
    SocketMessage(MSG_TYPE_UNIX_CONNECT, 1, [i \in 1..(MAX_PATH_LENGTH + 1) |-> 97],
                  NoIp, 0, <<>>)

CutBatches ==
    UNION {Cuts(serialize(m)) : m \in ReqMsgs} \cup
    UNION {{serialize(LeadingSend) \o c : c \in Cuts(serialize(m))} : m \in ReqMsgs} \cup
    Cuts(serialize(LongPathConnect))

\* The poll yield of run_loop has returned a cut batch
InitDecode ==
    /\ pc = "process" /\ err = NoError
    /\ tx_length \in SockCtxValues /\ rx_length = Crx
    /\ data \in CutBatches
    /\ yields = <<YieldRecord(UNIX_SOCKET_CMD, <<>>, data)>>
    /\ offset = 0 /\ responses = <<>>
    /\ unix_connections = EmptyTable /\ tcp_connections = EmptyTable
    /\ reqs = <<>> /\ dispatched = <<>> /\ respList = <<>>
    /\ packets = <<>> /\ idx = 1 /\ current_batch = <<>> /\ current_batch_size = 0
    /\ injected = <<>>
    /\ held = AllResources /\ tx_buffer = <<>> /\ rx_buffer = <<>>
    /\ call = NoCall /\ ioctl = <<>> /\ ret = NoReturn
    /\ test_message = NoMessage /\ deserialized = DeserializeErr
    /\ handles = {"SocketManager"}

SpecDecode == InitDecode /\ [][NextSock]_vars

----------------------------------------------------------------------------
(* Cmio: new, yield_with_buffer and drop *)

\* Cmio::new: open, SETUP, the two mmap; each may fail
CmioNew ==
    /\ pc = "cmio_new"
    /\ \E failure \in {"open", "setup", "tx_map", "rx_map", "none"} :
       \E ctx \in CmioLens : \E crx \in CmioLens :
         /\ held' = CASE failure = "open" -> {}
                      [] failure = "setup" -> {"fd"}
                      [] failure = "tx_map" -> {"fd"}
                      [] failure = "rx_map" -> {"fd"}
                      [] failure = "none" -> AllResources
         /\ err' = CASE failure = "open" -> OpenError
                     [] failure = "setup" -> SetupError
                     [] failure = "tx_map" -> MapError
                     [] failure = "rx_map" -> MapError
                     [] failure = "none" -> err
         /\ IF failure = "none"
               THEN /\ pc' = "cmio_open"
                    /\ tx_length' = ctx /\ rx_length' = crx
                    /\ tx_buffer' = FreshTx(ctx)
                    /\ rx_buffer' = [i \in 1..crx |-> 0]
            ELSE /\ pc' = "error"
                 /\ UNCHANGED <<tx_length, rx_length, tx_buffer, rx_buffer>>
    /\ UNCHANGED <<yields, call, ioctl, ret>>
    /\ UNCHANGED <<sockVars, tapVars, codecVars, mainVars>>

\* What the host does with the YIELD ioctl: it fails it, or it fills the RX
\* region, leaves a word in `req` and resumes the guest
HostAnswer(failed, word, rx) == [failed |-> failed, word |-> word, rx |-> rx]
HostAnswers ==
    {HostAnswer(FALSE, word, rx) : word \in HostWords, rx \in HostRx(rx_length)} \cup
    {HostAnswer(TRUE, <<>>, <<>>)}

\* Cmio::yield_with_buffer with Cmio::yield_, the buffers and the word followed
YieldWithBuffer ==
    /\ pc = "cmio_open"
    /\ \E a \in CallArgs : \E tx_data \in TxPayloads : \E host \in HostAnswers :
         LET yield_data == CmioYield(a[1], a[2], a[3], Len(tx_data))
             req == packed(yield_data)
             answered == IF host.failed THEN yield_data ELSE unpacked(host.word)
             h == IF host.failed THEN HostFail
                  ELSE HostOutcome("ok", answered.data, host.rx)
             r == yield_with_buffer(tx_data, h)
         IN /\ call' = [dev |-> a[1], cmd |-> a[2], reason |-> a[3], tx |-> tx_data,
                        tx_before |-> tx_buffer, made |-> TRUE]
            /\ tx_buffer' = IF r.issued THEN copy_nonoverlapping(tx_buffer, tx_data)
                            ELSE tx_buffer
            /\ rx_buffer' = IF r.issued /\ ~host.failed THEN host.rx ELSE rx_buffer
            /\ ioctl' = IF r.issued
                           THEN << [req |-> req, tx |-> tx_buffer', ok |-> ~host.failed,
                                    ans |-> IF host.failed THEN req ELSE host.word,
                                    desc |-> answered] >>
                        ELSE <<>>
            /\ ret' = [err |-> r.err, rx |-> r.rx,
                       reason |-> IF r.err = NoError THEN answered.reason ELSE 0]
    /\ pc' = "cmio_returned"
    /\ UNCHANGED <<err, tx_length, rx_length, held, yields>>
    /\ UNCHANGED <<sockVars, tapVars, codecVars, mainVars>>

\* The caller has the result and may call again; the history starts afresh
CmioReturn ==
    /\ pc = "cmio_returned"
    /\ pc' = "cmio_open"
    /\ call' = NoCall /\ ioctl' = <<>> /\ ret' = NoReturn
    /\ UNCHANGED <<err, tx_length, rx_length, held, yields, tx_buffer, rx_buffer>>
    /\ UNCHANGED <<sockVars, tapVars, codecVars, mainVars>>

\* Drop for Cmio
CmioDrop ==
    /\ pc = "cmio_open"
    /\ pc' = "cmio_dropped"
    /\ held' = ((held \ {"tx_map"}) \ {"rx_map"}) \ {"fd"}
    /\ UNCHANGED <<err, tx_length, rx_length, yields, tx_buffer, rx_buffer, call, ioctl, ret>>
    /\ UNCHANGED <<sockVars, tapVars, codecVars, mainVars>>

\* Before Cmio::new
InitCmio ==
    /\ pc = "cmio_new" /\ err = NoError
    /\ tx_length = 0 /\ rx_length = 0
    /\ yields = <<>>
    /\ data = <<>> /\ offset = 0 /\ responses = <<>>
    /\ unix_connections = EmptyTable /\ tcp_connections = EmptyTable
    /\ reqs = <<>> /\ dispatched = <<>> /\ respList = <<>>
    /\ packets = <<>> /\ idx = 1 /\ current_batch = <<>> /\ current_batch_size = 0
    /\ injected = <<>>
    /\ held = {} /\ tx_buffer = <<>> /\ rx_buffer = <<>>
    /\ call = NoCall /\ ioctl = <<>> /\ ret = NoReturn
    /\ test_message = NoMessage /\ deserialized = DeserializeErr
    /\ handles = {}

NextCmio ==
    \/ CmioNew
    \/ YieldWithBuffer
    \/ CmioReturn
    \/ CmioDrop

SpecCmio == InitCmio /\ [][NextCmio]_vars

----------------------------------------------------------------------------
(* TAP adapter: what the TAP and the host deliver *)

\* The frames recv returns: 1..MaxFrameLen bytes (MaxFrameLen stands for the
\* read buffer of MAX_PACKET_SIZE bytes); every byte of a frame is its length,
\* so that frames of different lengths differ in every byte
TapFrames == {[i \in 1..n |-> n] : n \in 1..MaxFrameLen}

\* What one call of get_packets_to_transmit ends with: the frames read until
\* recv reported WouldBlock or 0, or an error of recv
DrainOutcome(ok, frames) == [ok |-> ok, frames |-> frames]
DrainOutcomes ==
    {DrainOutcome(TRUE, F) : F \in SeqsUpTo(TapFrames, MaxFrames)} \cup
    {DrainOutcome(FALSE, <<>>)}

\* The TX capacities SETUP may report in network mode: the longest frame does
\* not fit (by one byte, by two), it fits exactly, or two of them fit
TapCtxValues == {MaxFrameLen, MaxFrameLen + 1, MaxFrameLen + 2, 2 * MaxFrameLen + 4}

\* The RX payloads of the host: nothing; one record; two records; a record and
\* one cut in its body
TapRxPayloads ==
    { <<>>, <<0, 1, 5>>, <<0, 1, 5, 0, 1, 6>>, <<0, 1, 5, 0, 2, 6>> }

TapHostOutcomes ==
    {HostOk(rx) : rx \in TapRxPayloads} \cup
    {HostFail, HostOutcome("ok", rx_length + 1, <<>>)}

----------------------------------------------------------------------------
(* TAP adapter: send_batch and process_received_data *)

\* batch_buffer with the length prefix written after the frame
RECURSIVE batch_buffer_prefix_last(_)
batch_buffer_prefix_last(ps) ==
    IF ps = <<>> THEN <<>>
    ELSE Head(ps) \o to_be_bytes(Len(Head(ps)) % 65536, 2) \o
         batch_buffer_prefix_last(Tail(ps))

\* batch_buffer of send_batch: u16_be(len) || frame for each packet, in order
RECURSIVE batch_buffer(_)
batch_buffer(ps) ==
    IF ps = <<>> THEN <<>>
    ELSE to_be_bytes(Len(Head(ps)) % 65536, 2) \o Head(ps) \o batch_buffer(Tail(ps))

\* records_from with >= for > in the check of the body: a record that ends
\* the payload is taken for a truncated one
RECURSIVE records_from_last_dropped(_, _)
records_from_last_dropped(d, off) ==
    IF ~(off < Len(d)) THEN <<>>
    ELSE IF off + 2 > Len(d) THEN <<>>
    ELSE LET packet_length == from_be_bytes(SubSeq(d, off + 1, off + 2))
         IN IF off + 2 + packet_length >= Len(d) THEN <<>>
            ELSE <<SubSeq(d, off + 3, off + 2 + packet_length)>> \o
                 records_from_last_dropped(d, off + 2 + packet_length)

\* The byte ranges process_received_data sends to the TAP, from cursor `off` on
RECURSIVE records_from(_, _)
records_from(d, off) ==
    IF ~(off < Len(d)) THEN <<>>
    ELSE IF off + 2 > Len(d) THEN <<>>
    ELSE LET packet_length == from_be_bytes(SubSeq(d, off + 1, off + 2))
         IN IF off + 2 + packet_length > Len(d) THEN <<>>
            ELSE <<SubSeq(d, off + 3, off + 2 + packet_length)>> \o
                 records_from(d, off + 2 + packet_length)

\* NetworkInterface::process_received_data when the k-th iface.send fails
\* (k = 0: none fails): the frames sent, and whether it returned Ok
process_received_data(d, k) ==
    LET recs == records_from(d, 0)
    IN IF k = 0 \/ k > Len(recs) THEN [ok |-> TRUE, sent |-> recs]
       ELSE [ok |-> FALSE, sent |-> SubSeq(recs, 1, k - 1)]

\* The sends of the TAP that may fail while `d` is injected
SendFailures(d) == 0..Len(records_from(d, 0))

\* must_flush with >= for >: a batch that would fill the buffer exactly is
\* sent early
must_flush_when_full(batch, batch_size, packet_size) ==
    batch_size + packet_size >= tx_length /\ batch # <<>>

\* The condition under which the for loop of run_loop sends the current batch
\* before it adds the packet
must_flush(batch, batch_size, packet_size) ==
    batch_size + packet_size > tx_length /\ batch # <<>>

\* One yield of the TAP loop with TX payload tx, and the injection of its RX
\* payload where `inject` says the code does that; `next` is where the loop
\* goes when nothing fails
TapYield(tx, inject, next, h, k) ==
    LET r == yield_with_buffer(tx, h)
        p == process_received_data(r.rx, k)
    IN /\ yields' = Logged(yields, TAP_RXTX_CMD, tx, r)
       /\ IF r.err # NoError
             THEN /\ pc' = "error" /\ err' = r.err
                  /\ injected' = <<>>
          ELSE IF inject /\ r.rx # <<>> /\ ~p.ok
             THEN /\ pc' = "error" /\ err' = SetupError
                  /\ injected' = p.sent
          ELSE /\ pc' = next /\ err' = err
               /\ injected' = IF inject /\ r.rx # <<>> THEN p.sent ELSE <<>>

\* The host may keep answering with data only while the history has room
HostMayAnswer(h) == h.rx = <<>> \/ Len(yields) < MaxYields

----------------------------------------------------------------------------
(* TAP adapter: run_loop *)

\* Step 1: get_packets_to_transmit, and the branch on what it returned
DrainTap ==
    /\ pc = "tap_drain"
    /\ \E o \in DrainOutcomes :
         IF ~o.ok
            THEN /\ pc' = "error" /\ err' = SetupError
                 /\ UNCHANGED packets
         ELSE /\ packets' = o.frames
              /\ pc' = IF o.frames # <<>> THEN "tap_batch" ELSE "tap_check"
              /\ err' = err
    /\ UNCHANGED <<tx_length, rx_length, yields, idx, current_batch,
                   current_batch_size, injected>>
    /\ UNCHANGED <<sockVars, cmioVars, codecVars, mainVars>>

\* The body of the for loop when the packet joins the current batch
AddPacket ==
    /\ pc = "tap_batch" /\ idx <= Len(packets)
    /\ LET packet == packets[idx]
           packet_size == Len(packet) + 2
       IN /\ ~must_flush(current_batch, current_batch_size, packet_size)
          /\ current_batch' = Append(current_batch, packet)
          /\ current_batch_size' = current_batch_size + packet_size
    /\ idx' = idx + 1
    /\ UNCHANGED <<pc, err, tx_length, rx_length, yields, packets, injected>>
    /\ UNCHANGED <<sockVars, cmioVars, codecVars, mainVars>>

\* The body of the for loop when the current batch is sent first
FlushAndAddPacket ==
    /\ pc = "tap_batch" /\ idx <= Len(packets)
    /\ LET packet == packets[idx]
           packet_size == Len(packet) + 2
       IN /\ must_flush(current_batch, current_batch_size, packet_size)
          /\ \E h \in TapHostOutcomes : \E k \in SendFailures(h.rx) :
               /\ TapYield(batch_buffer(current_batch), TRUE, "tap_batch", h, k)
               /\ IF pc' = "error"
                     THEN UNCHANGED <<current_batch, current_batch_size, idx>>
                  ELSE /\ current_batch' = <<packet>>
                       /\ current_batch_size' = packet_size
                       /\ idx' = idx + 1
    /\ UNCHANGED <<tx_length, rx_length, packets>>
    /\ UNCHANGED <<sockVars, cmioVars, codecVars, mainVars>>

\* After the for loop: the remaining packets are sent as the last batch
SendLastBatch ==
    /\ pc = "tap_batch" /\ idx > Len(packets)
    /\ IF current_batch # <<>>
          THEN \E h \in TapHostOutcomes : \E k \in SendFailures(h.rx) :
                 TapYield(batch_buffer(current_batch), TRUE, "tap_ingress", h, k)
       ELSE pc' = "tap_ingress" /\ UNCHANGED <<err, yields, injected>>
    /\ UNCHANGED <<tx_length, rx_length, packets, idx, current_batch, current_batch_size>>
    /\ UNCHANGED <<sockVars, cmioVars, codecVars, mainVars>>

\* DrainIngress as a single yield: the loop is left whatever the RX payload is
DrainIngress_once(at) ==
    /\ pc = at
    /\ \E h \in TapHostOutcomes : \E k \in SendFailures(h.rx) :
         /\ HostMayAnswer(h)
         /\ TapYield(<<>>, TRUE, "tap_iter_end", h, k)
    /\ UNCHANGED <<tx_length, rx_length, packets, idx, current_batch, current_batch_size>>
    /\ UNCHANGED <<sockVars, cmioVars, codecVars, mainVars>>

\* One turn of a loop that yields an empty payload until the RX payload is empty
DrainIngress(at) ==
    /\ pc = at
    /\ \E h \in TapHostOutcomes : \E k \in SendFailures(h.rx) :
         /\ HostMayAnswer(h)
         /\ TapYield(<<>>, TRUE, IF h.kind = "ok" /\ h.rx = <<>> THEN "tap_iter_end" ELSE at,
                     h, k)
    /\ UNCHANGED <<tx_length, rx_length, packets, idx, current_batch, current_batch_size>>
    /\ UNCHANGED <<sockVars, cmioVars, codecVars, mainVars>>

\* Step 4 after the batches were sent
IngressAfterBatches == DrainIngress("tap_ingress")

\* Nothing to transmit: the yield that checks for incoming data
CheckYield ==
    /\ pc = "tap_check"
    /\ \E h \in TapHostOutcomes : \E k \in SendFailures(h.rx) :
         TapYield(<<>>, TRUE, IF h.kind = "ok" /\ h.rx = <<>> THEN "tap_idle" ELSE "tap_more",
                  h, k)
    /\ UNCHANGED <<tx_length, rx_length, packets, idx, current_batch, current_batch_size>>
    /\ UNCHANGED <<sockVars, cmioVars, codecVars, mainVars>>

\* The loop after the check yield returned data
IngressAfterCheck == DrainIngress("tap_more")

\* TapIdleYield without its yield: the iteration ends after the check yield
TapIdleYield_skipped ==
    /\ pc = "tap_idle"
    /\ pc' = "tap_iter_end"
    /\ UNCHANGED <<err, yields, injected>>
    /\ UNCHANGED <<tx_length, rx_length, packets, idx, current_batch, current_batch_size>>
    /\ UNCHANGED <<sockVars, cmioVars, codecVars, mainVars>>

\* Step 5: nothing to transmit or receive; the RX payload is not looked at
TapIdleYield ==
    /\ pc = "tap_idle"
    /\ \E h \in TapHostOutcomes :
         TapYield(<<>>, FALSE, "tap_iter_end", h, 0)
    /\ UNCHANGED <<tx_length, rx_length, packets, idx, current_batch, current_batch_size>>
    /\ UNCHANGED <<sockVars, cmioVars, codecVars, mainVars>>

\* run_loop that returns Ok(()) at the end of the loop body
TapNextIteration_returns ==
    /\ pc = "tap_iter_end"
    /\ pc' = "returned"
    /\ UNCHANGED <<err, tx_length, rx_length, yields, injected, packets, idx,
                   current_batch, current_batch_size>>
    /\ UNCHANGED <<sockVars, cmioVars, codecVars, mainVars>>

\* The end of the loop body: the next iteration starts, with a fresh history
TapNextIteration ==
    /\ pc = "tap_iter_end"
    /\ pc' = "tap_drain"
    /\ yields' = <<>> /\ injected' = <<>>
    /\ packets' = <<>> /\ idx' = 1
    /\ current_batch' = <<>> /\ current_batch_size' = 0
    /\ UNCHANGED <<err, tx_length, rx_length>>
    /\ UNCHANGED <<sockVars, cmioVars, codecVars, mainVars>>

\* NetworkInterface::new: an opened Cmio, its tx_length cached
InitTap ==
    /\ pc = "tap_drain" /\ err = NoError
    /\ tx_length \in TapCtxValues /\ rx_length = Crx
    /\ yields = <<>>
    /\ data = <<>> /\ offset = 0 /\ responses = <<>>
    /\ unix_connections = EmptyTable /\ tcp_connections = EmptyTable
    /\ reqs = <<>> /\ dispatched = <<>> /\ respList = <<>>
    /\ packets = <<>> /\ idx = 1 /\ current_batch = <<>> /\ current_batch_size = 0
    /\ injected = <<>>
    /\ held = AllResources /\ tx_buffer = <<>> /\ rx_buffer = <<>>
    /\ call = NoCall /\ ioctl = <<>> /\ ret = NoReturn
    /\ test_message = NoMessage /\ deserialized = DeserializeErr
    /\ handles = {"run_network_mode", "NetworkInterface"}

NextTap ==
    \/ DrainTap
    \/ AddPacket
    \/ FlushAndAddPacket
    \/ SendLastBatch
    \/ IngressAfterBatches
    \/ CheckYield
    \/ IngressAfterCheck
    \/ TapIdleYield
    \/ TapNextIteration

SpecTap == InitTap /\ [][NextTap]_vars

----------------------------------------------------------------------------
(* TAP adapter: the loops that yield until the RX payload is empty *)

\* The frame lists that make one batch when two of the longest frames fit
OneBatchLists == SeqsUpTo(TapFrames, 2) \ {<<>>}

\* run_loop where it enters one of the two loops: after the only batch of the
\* iteration was sent and its RX payload injected (line 89), or after the check
\* yield returned data that was injected (line 118)
InitIngress ==
    /\ err = NoError
    /\ tx_length = 2 * MaxFrameLen + 4 /\ rx_length = Crx
    /\ \E rx \in TapRxPayloads :
         /\ injected = records_from(rx, 0)
         /\ \/ /\ pc = "tap_ingress"
               /\ packets \in OneBatchLists
               /\ idx = Len(packets) + 1
               /\ current_batch = packets
               /\ current_batch_size = Len(batch_buffer(packets))
               /\ yields = <<YieldRecord(TAP_RXTX_CMD, batch_buffer(packets), rx)>>
            \/ /\ pc = "tap_more"
               /\ rx # <<>>
               /\ packets = <<>> /\ idx = 1
               /\ current_batch = <<>> /\ current_batch_size = 0
               /\ yields = <<YieldRecord(TAP_RXTX_CMD, <<>>, rx)>>
    /\ data = <<>> /\ offset = 0 /\ responses = <<>>
    /\ unix_connections = EmptyTable /\ tcp_connections = EmptyTable
    /\ reqs = <<>> /\ dispatched = <<>> /\ respList = <<>>
    /\ held = AllResources /\ tx_buffer = <<>> /\ rx_buffer = <<>>
    /\ call = NoCall /\ ioctl = <<>> /\ ret = NoReturn
    /\ test_message = NoMessage /\ deserialized = DeserializeErr
    /\ handles = {"run_network_mode", "NetworkInterface"}

NextIngress ==
    \/ IngressAfterBatches
    \/ IngressAfterCheck
    \/ TapNextIteration

\* The guest is resumed after every yield and run_loop takes its next step
SpecIngress == InitIngress /\ [][NextIngress]_vars /\ WF_vars(NextIngress)

----------------------------------------------------------------------------
(* TAP adapter: process_received_data on any RX payload *)

\* The RX payloads: every byte string of up to MaxRxLen bytes over RxBytes, and
\* the payload 00 02 AA BB 00 03 CC DD EE with its bytes below 0x80
RxBytes == {0, 1, 2}
RxPayloads ==
    SeqsUpTo(RxBytes, MaxRxLen) \cup {<<0, 2, 42, 43, 0, 3, 44, 45, 46>>}

\* NetworkInterface::process_received_data(data): the sends to the TAP, of
\* which any may fail
Inject ==
    /\ pc = "inject"
    /\ \E k \in SendFailures(data) :
         LET p == process_received_data(data, k) IN
         /\ injected' = p.sent
         /\ IF p.ok THEN pc' = "inject_done" /\ err' = err
            ELSE pc' = "error" /\ err' = SetupError
    /\ UNCHANGED <<tx_length, rx_length, yields, packets, idx, current_batch,
                   current_batch_size>>
    /\ UNCHANGED <<sockVars, cmioVars, codecVars, mainVars>>

\* A yield of the TAP loop has returned the RX payload `data`
InitInject ==
    /\ pc = "inject" /\ err = NoError
    /\ tx_length \in TapCtxValues /\ rx_length = Crx
    /\ yields = <<>>
    /\ data \in RxPayloads
    /\ offset = 0 /\ responses = <<>>
    /\ unix_connections = EmptyTable /\ tcp_connections = EmptyTable
    /\ reqs = <<>> /\ dispatched = <<>> /\ respList = <<>>
    /\ packets = <<>> /\ idx = 1 /\ current_batch = <<>> /\ current_batch_size = 0
    /\ injected = <<>>
    /\ held = AllResources /\ tx_buffer = <<>> /\ rx_buffer = <<>>
    /\ call = NoCall /\ ioctl = <<>> /\ ret = NoReturn
    /\ test_message = NoMessage /\ deserialized = DeserializeErr
    /\ handles = {"run_network_mode", "NetworkInterface"}

NextInject == Inject

SpecInject == InitInject /\ [][NextInject]_vars

----------------------------------------------------------------------------
(* SocketMessage: serialize, then deserialize *)

\* The messages of the tests and their like: every type and two unknown ones,
\* with every field set, also those the type has no use for
TestTypes == (MSG_TYPE_UNIX_CONNECT..MSG_TYPE_TCP_CLOSE) \cup {9, 127}
TestIds == {0, 1, 305419896}
TestPaths ==
    {<<>>, <<97>>, <<47, 116, 109, 112, 47, 116, 46, 115, 111, 99, 107>>,
     [i \in 1..MAX_PATH_LENGTH |-> 97 + (i % 26)]}
TestIps == {<<0, 0, 0, 0>>, <<10, 0, 0, 1>>}
TestPorts == {0, 443, 65535}
TestData == {<<>>, <<9, 10, 11, 12>>, [i \in 1..LargeDataLen |-> 0]}
TestMessages ==
    {SocketMessage(t, id, path, ip, port, d) :
        t \in TestTypes, id \in TestIds, path \in TestPaths, ip \in TestIps,
        port \in TestPorts, d \in TestData}

\* message.serialize()
Serialize ==
    /\ pc = "codec"
    /\ data' = serialize(test_message)
    /\ pc' = "serialized"
    /\ UNCHANGED <<err, tx_length, rx_length, yields, offset, responses,
                   unix_connections, tcp_connections, reqs, dispatched, respList,
                   test_message, deserialized>>
    /\ UNCHANGED <<tapVars, cmioVars, mainVars>>

\* SocketMessage::deserialize(&serialized)
Deserialize ==
    /\ pc = "serialized"
    /\ deserialized' = deserialize(data)
    /\ pc' = "deserialized"
    /\ UNCHANGED <<err, tx_length, rx_length, yields, test_message>>
    /\ UNCHANGED <<sockVars, tapVars, cmioVars, mainVars>>

\* A test has built its message
InitCodec ==
    /\ pc = "codec" /\ err = NoError
    /\ test_message \in TestMessages /\ deserialized = DeserializeErr
    /\ handles = {}
    /\ tx_length = 0 /\ rx_length = 0
    /\ yields = <<>>
    /\ data = <<>> /\ offset = 0 /\ responses = <<>>
    /\ unix_connections = EmptyTable /\ tcp_connections = EmptyTable
    /\ reqs = <<>> /\ dispatched = <<>> /\ respList = <<>>
    /\ packets = <<>> /\ idx = 1 /\ current_batch = <<>> /\ current_batch_size = 0
    /\ injected = <<>>
    /\ held = {} /\ tx_buffer = <<>> /\ rx_buffer = <<>>
    /\ call = NoCall /\ ioctl = <<>> /\ ret = NoReturn

NextCodec ==
    \/ Serialize
    \/ Deserialize

SpecCodec == InitCodec /\ [][NextCodec]_vars

----------------------------------------------------------------------------
(* main: the mode is selected and the adapter constructed *)

\* b"Hello, TAP CMIO!", the payload of the second yield of run_network_mode
HelloPayload == <<72, 101, 108, 108, 111, 44, 32, 84, 65, 80, 32, 67, 77, 73, 79, 33>>

\* The TX capacities SETUP may report: one below the length of HelloPayload,
\* that length, and larger ones
MainCtxValues ==
    {Len(HelloPayload) - 1, Len(HelloPayload), Len(HelloPayload) + MaxBuf}

\* What the host answers the yields of run_network_mode with
MainHostOutcomes ==
    {HostOk([i \in 1..n |-> 3]) : n \in 0..MaxRxLen} \cup
    {HostFail, HostOutcome("ok", rx_length + 1, <<>>)}

mainFrame ==
    /\ UNCHANGED <<sockVars, tapVars, cmioVars, codecVars>>

\* main: the match on args[1]; "help" and any other word print the usage
SelectMode ==
    /\ pc = "main"
    /\ pc' \in {"run_network_mode", "run_unix_socket_mode", "exit"}
    /\ UNCHANGED <<err, tx_length, rx_length, yields, handles>>
    /\ mainFrame

\* run_network_mode: `let mut cmio = Cmio::new()?`
NetCmioNew ==
    /\ pc = "run_network_mode"
    /\ \/ /\ pc' = "net_yield"
          /\ handles' = handles \cup {"run_network_mode"}
          /\ tx_length' \in MainCtxValues
          /\ UNCHANGED err
       \/ /\ pc' = "exit"
          /\ err' \in {OpenError, SetupError, MapError}
          /\ UNCHANGED <<handles, tx_length>>
    /\ UNCHANGED <<rx_length, yields>>
    /\ mainFrame

\* run_network_mode: cmio.yield_ on the all-zero CmioYield; the descriptor the
\* host returns is printed, its data field is recorded as rx_len
NetBasicYield ==
    /\ pc = "net_yield"
    /\ \E h \in {HostFail} \cup {HostOk([i \in 1..n |-> 3]) : n \in 0..MaxRxLen} :
         /\ yields' = Append(yields, [dev |-> 0, cmd |-> 0, reason |-> 0, tx |-> <<>>,
                                      rx_len |-> h.n])
         /\ IF h.kind = "fail"
               THEN pc' = "exit" /\ err' = SetupError /\ handles' = {}
            ELSE pc' = "net_hello" /\ UNCHANGED <<err, handles>>
    /\ UNCHANGED <<tx_length, rx_length>>
    /\ mainFrame

\* run_network_mode: cmio.yield_with_buffer(1, 2, 3, b"Hello, TAP CMIO!")
NetHelloYield ==
    /\ pc = "net_hello"
    /\ \E h \in MainHostOutcomes :
         LET r == yield_with_buffer(HelloPayload, h) IN
         /\ yields' = IF r.issued
                         THEN Append(yields, [dev |-> 1, cmd |-> 2, reason |-> 3,
                                              tx |-> HelloPayload, rx_len |-> Len(r.rx)])
                      ELSE yields
         /\ IF r.err # NoError
               THEN pc' = "exit" /\ err' = r.err /\ handles' = {}
            ELSE pc' = "net_iface" /\ UNCHANGED <<err, handles>>
    /\ UNCHANGED <<tx_length, rx_length>>
    /\ mainFrame

\* run_network_mode: NetworkInterface::new()?, which opens a Cmio of its own
\* and then the TAP interface; `cmio` of run_network_mode is still alive
NetworkInterfaceNew ==
    /\ pc = "net_iface"
    /\ \E outcome \in {"ok", "cmio_failed", "iface_failed"} :
         IF outcome = "ok"
            THEN /\ pc' = "net_run_loop"
                 /\ handles' = handles \cup {"NetworkInterface"}
                 /\ UNCHANGED err
         ELSE /\ pc' = "exit"
              /\ err' = SetupError
              /\ handles' = {}
    /\ UNCHANGED <<tx_length, rx_length, yields>>
    /\ mainFrame

\* run_network_mode: network.run_loop()? returns, which it does with an error
\* only; `network` and `cmio` are dropped
NetRunLoopReturns ==
    /\ pc = "net_run_loop"
    /\ pc' = "exit"
    /\ err' \in {SetupError, BufferTooLarge(tx_length + 1, tx_length)}
    /\ handles' = {}
    /\ UNCHANGED <<tx_length, rx_length, yields>>
    /\ mainFrame

\* run_unix_socket_mode: `let cmio = Cmio::new()?`
UnixCmioNew ==
    /\ pc = "run_unix_socket_mode"
    /\ \/ /\ pc' = "unix_manager"
          /\ handles' = handles \cup {"run_unix_socket_mode"}
          /\ tx_length' \in MainCtxValues
          /\ UNCHANGED err
       \/ /\ pc' = "exit"
          /\ err' \in {OpenError, SetupError, MapError}
          /\ UNCHANGED <<handles, tx_length>>
    /\ UNCHANGED <<rx_length, yields>>
    /\ mainFrame

\* run_unix_socket_mode: SocketManager::new(cmio, cmio_max_buffer_size) takes
\* `cmio` by value
SocketManagerNew ==
    /\ pc = "unix_manager"
    /\ pc' = "unix_run_loop"
    /\ handles' = (handles \ {"run_unix_socket_mode"}) \cup {"SocketManager"}
    /\ UNCHANGED <<err, tx_length, rx_length, yields>>
    /\ mainFrame

\* run_unix_socket_mode: socket_manager.run_loop()? returns with an error
UnixRunLoopReturns ==
    /\ pc = "unix_run_loop"
    /\ pc' = "exit"
    /\ err' \in {SetupError, BufferTooLarge(tx_length + 1, tx_length)}
    /\ handles' = {}
    /\ UNCHANGED <<tx_length, rx_length, yields>>
    /\ mainFrame

\* The process has started: no device is open
InitMain ==
    /\ pc = "main" /\ err = NoError
    /\ tx_length = 0 /\ rx_length = Crx
    /\ yields = <<>>
    /\ data = <<>> /\ offset = 0 /\ responses = <<>>
    /\ unix_connections = EmptyTable /\ tcp_connections = EmptyTable
    /\ reqs = <<>> /\ dispatched = <<>> /\ respList = <<>>
    /\ packets = <<>> /\ idx = 1 /\ current_batch = <<>> /\ current_batch_size = 0
    /\ injected = <<>>
    /\ held = {} /\ tx_buffer = <<>> /\ rx_buffer = <<>>
    /\ call = NoCall /\ ioctl = <<>> /\ ret = NoReturn
    /\ test_message = NoMessage /\ deserialized = DeserializeErr
    /\ handles = {}

NextMain ==
    \/ SelectMode
    \/ NetCmioNew
    \/ NetBasicYield
    \/ NetHelloYield
    \/ NetworkInterfaceNew
    \/ NetRunLoopReturns
    \/ UnixCmioNew
    \/ SocketManagerNew
    \/ UnixRunLoopReturns

SpecMain == InitMain /\ [][NextMain]_vars

----------------------------------------------------------------------------
(* Socket multiplexer: properties *)

Last(q) == q[Len(q)]

\* The batch is a concatenation of messages of the eight types
EightTypes(ms) ==
    \A i \in 1..Len(ms) : ms[i].msg_type \in MSG_TYPE_UNIX_CONNECT..MSG_TYPE_TCP_CLOSE

\* The encoded length of a message: 1+4+1+path_len, 1+4+6, or 1+4+4+data_len
EncodedLen(m) ==
    IF m.msg_type = MSG_TYPE_UNIX_CONNECT THEN 1 + 4 + 1 + Len(m.path)
    ELSE IF m.msg_type = MSG_TYPE_TCP_CONNECT THEN 1 + 4 + 6
    ELSE 1 + 4 + 4 + Len(m.data)

RECURSIVE EncodedLenUpTo(_, _)
EncodedLenUpTo(ms, k) ==
    IF k = 0 THEN 0 ELSE EncodedLenUpTo(ms, k - 1) + EncodedLen(ms[k])

\* A status response: msg_type, conn_id, data_len = 1 and the status byte
StatusResponse(msg_type, id, status) ==
    <<msg_type>> \o to_be_bytes(id, 4) \o <<0, 0, 0, 1>> \o <<status>>

IsConnect(m) == m.msg_type \in {MSG_TYPE_UNIX_CONNECT, MSG_TYPE_TCP_CONNECT}

\* A request batch has been received and every request of it processed: the
\* while loop of process_received_data has run to its end
BatchProcessed ==
    /\ pc \in {"iter_end", "error"}
    /\ data # <<>>
    /\ offset >= Len(data)

\* C1: for a batch that concatenates well-formed messages of the eight types,
\* the messages dispatched are the messages of the batch, each once and in
\* order, each decoded at the byte where it starts, and after each the cursor
\* stands at the first byte of the next message.
C1_CursorAdvancesByEncodedLength ==
    (pc \in {"process", "iter_end"} /\ EightTypes(reqs)) =>
        /\ Len(dispatched) <= Len(reqs)
        /\ \A i \in 1..Len(dispatched) :
              /\ dispatched[i].msg = reqs[i]
              /\ dispatched[i].at = EncodedLenUpTo(reqs, i - 1)
        /\ pc = "process" => offset = EncodedLenUpTo(reqs, Len(dispatched))
        /\ pc = "iter_end" => Len(dispatched) = Len(reqs)

\* C2: when a request batch has been processed without a fatal error, the
\* response batch sent holds one response per request, in request order, and
\* each response carries the msg_type and conn_id of its request.
C2_OneResponsePerRequestInOrder ==
    (pc = "iter_end" /\ data # <<>>) =>
        /\ Len(respList) = Len(reqs)
        /\ \A i \in 1..Len(respList) :
              /\ i <= Len(reqs)
              /\ respList[i][1] = reqs[i].msg_type
              /\ from_be_bytes(SubSeq(respList[i], 2, 5)) = reqs[i].socket_id
        /\ Last(yields).tx = Concat(respList)

\* C3: the response to a successful UNIX_CONNECT or TCP_CONNECT is msg_type,
\* conn_id, data_len = 1 and the status byte 0x00.
C3_ConnectResponseIsStatusOk ==
    \A i \in 1..Len(respList) :
        IsConnect(dispatched[i].msg) =>
            respList[i] = StatusResponse(dispatched[i].msg.msg_type,
                                         dispatched[i].msg.socket_id, 0)

\* C4: a UNIX_CONNECT or TCP_CONNECT whose connection attempt fails is answered
\* with the status byte 1, registers nothing, and does not end the loop.
C4_FailedConnectAnswersStatusError ==
    \A i \in 1..Len(dispatched) :
        (IsConnect(dispatched[i].msg) /\ dispatched[i].env = "refused") =>
            /\ i <= Len(respList)
            /\ respList[i] = StatusResponse(dispatched[i].msg.msg_type,
                                            dispatched[i].msg.socket_id, 1)
            /\ ~(pc = "error" /\ i = Len(dispatched) /\ offset < Len(data))

\* C5: every connection id is in at most one of the two tables.
C5_IdInAtMostOneTable ==
    (DOMAIN unix_connections) \cap (DOMAIN tcp_connections) = {}

\* What a CLOSE of `id`, found in `table`, must do to the table and answer
CloseEffect(msg_type, id, table, tableAfter) ==
    /\ pc' = "process"
    /\ Len(respList') = Len(respList) + 1
    /\ IF id \in DOMAIN table
          THEN /\ Last(respList') = StatusResponse(msg_type, id, 0)
               /\ DOMAIN tableAfter = (DOMAIN table) \ {id}
               /\ \A x \in DOMAIN tableAfter : tableAfter[x] = table[x]
       ELSE /\ Last(respList') = StatusResponse(msg_type, id, 1)
            /\ tableAfter = table

\* C6: a CLOSE on an id present in the table of its kind answers status 0 and
\* removes exactly that id from that table; on an absent id it answers status 1,
\* is not fatal and changes no table; the table of the other kind never changes.
C6_CloseRemovesExactlyTheId ==
    [][ /\ (InLoop /\ Decoded.ok /\ Decoded.msg.msg_type = MSG_TYPE_UNIX_CLOSE) =>
            /\ CloseEffect(MSG_TYPE_UNIX_CLOSE, Decoded.msg.socket_id,
                           unix_connections, unix_connections')
            /\ tcp_connections' = tcp_connections
        /\ (InLoop /\ Decoded.ok /\ Decoded.msg.msg_type = MSG_TYPE_TCP_CLOSE) =>
            /\ CloseEffect(MSG_TYPE_TCP_CLOSE, Decoded.msg.socket_id,
                           tcp_connections, tcp_connections')
            /\ unix_connections' = unix_connections ]_vars

\* C6 (witness): a TCP_CLOSE of id 1 has just removed it from the TCP table
\* and answered status 0, while the Unix table still holds id 1.
C6_Witness ==
    /\ pc = "process"
    /\ dispatched # <<>>
    /\ Last(dispatched).msg.msg_type = MSG_TYPE_TCP_CLOSE
    /\ Last(dispatched).msg.socket_id = 1
    /\ Last(respList) = StatusResponse(MSG_TYPE_TCP_CLOSE, 1, 0)
    /\ 1 \notin DOMAIN tcp_connections
    /\ 1 \in DOMAIN unix_connections

\* The TX payloads of the yields of this iteration, in order
TxOf(ys) == [i \in 1..Len(ys) |-> ys[i].tx]

\* C7 (as claimed): no yield is issued while a batch is being processed, and
\* once every request is processed exactly one yield is issued, carrying the
\* concatenation of all responses of the batch.
C7_OneYieldCarriesAllResponses ==
    /\ pc = "process" => TxOf(yields) = << <<>> >>
    /\ BatchProcessed =>
          TxOf(yields) = << <<>>, Concat(respList) >>

\* C7 (amended): the same, when the concatenated responses fit the TX buffer;
\* when they exceed Ctx no yield is issued for the batch and the loop ends with
\* BufferTooLarge.
C7_OneYieldWhenResponsesFit ==
    /\ pc = "process" => TxOf(yields) = << <<>> >>
    /\ (BatchProcessed /\ Len(Concat(respList)) <= tx_length) =>
          TxOf(yields) = << <<>>, Concat(respList) >>
    /\ (BatchProcessed /\ Len(Concat(respList)) > tx_length) =>
          /\ TxOf(yields) = << <<>> >>
          /\ pc = "error"
          /\ err = BufferTooLarge(Len(Concat(respList)), tx_length)

\* C7 (witness): a batch of two requests has been answered by one yield
C7_Witness ==
    /\ pc = "iter_end"
    /\ Len(respList) = 2
    /\ TxOf(yields) = << <<>>, Concat(respList) >>

----------------------------------------------------------------------------
(* TAP adapter: properties *)

\* The serialization of a frame list: u16_be(len) || frame, in list order
Serialization(F) ==
    Concat([i \in 1..Len(F) |-> to_be_bytes(Len(F[i]), 2) \o F[i]])

RECURSIVE SerializedSize(_)
SerializedSize(F) == IF F = <<>> THEN 0 ELSE 2 + Len(Head(F)) + SerializedSize(Tail(F))

\* The TX payloads of the batches yielded in this iteration, in yield order:
\* every frame has a byte, so a batch is a yield with a payload
RECURSIVE SentBatches(_)
SentBatches(ys) ==
    IF ys = <<>> THEN <<>>
    ELSE IF Head(ys).tx # <<>> THEN <<Head(ys).tx>> \o SentBatches(Tail(ys))
    ELSE SentBatches(Tail(ys))

\* Every frame of F fits the TX buffer when it is alone in a batch
AllFit(F) == \A i \in 1..Len(F) : 2 + Len(F[i]) <= tx_length

\* The Transport refused a TX payload: BufferTooLarge(size, Ctx), size > Ctx
TxRejected ==
    /\ pc = "error" /\ Len(err) = 3
    /\ err[1] = "BufferTooLarge" /\ err[3] = tx_length /\ err[2] > tx_length

\* Frames were drained and every batch of them was yielded and answered
TransmitDone == packets # <<>> /\ pc \in {"tap_ingress", "tap_iter_end"}

\* What C8 says of the batches of the drained list `packets`
BatchesCarry(F) ==
    /\ SerializedSize(F) <= tx_length => Len(SentBatches(yields)) = 1
    /\ \A i \in 1..Len(SentBatches(yields)) : Len(SentBatches(yields)[i]) <= tx_length
    /\ Concat(SentBatches(yields)) = Serialization(F)

\* C8 (as claimed): for every list of frames drained in one iteration, once
\* the adapter is through with transmitting it: a list of serialized size at
\* most Ctx was sent in a single yield; otherwise every batch yielded is at
\* most Ctx and the batches, concatenated in yield order, are the serialization
\* of the list.
C8_BatchesCarryEveryFrameList ==
    (TransmitDone \/ (packets # <<>> /\ TxRejected)) => BatchesCarry(packets)

\* C8 (amended): the same for every drained list whose frames each fit the TX
\* buffer alone (2 + |f| <= Ctx) and whose batch yields all succeed; no batch
\* of such a list is refused by the Transport, and a list with a frame that
\* does not fit alone is never transmitted in full.
C8_BatchesCarryListsOfFittingFrames ==
    /\ TransmitDone => (AllFit(packets) /\ BatchesCarry(packets))
    /\ (packets # <<>> /\ TxRejected) => ~AllFit(packets)
    /\ \A i \in 1..Len(SentBatches(yields)) : Len(SentBatches(yields)[i]) <= tx_length

\* C8 (witness): three frames went out in two batches, the first of two frames
C8_Witness ==
    /\ TransmitDone
    /\ Len(packets) = 3
    /\ SerializedSize(packets) > tx_length
    /\ Len(SentBatches(yields)) = 2
    /\ SentBatches(yields)[1] = Serialization(SubSeq(packets, 1, 2))

\* One turn of the for loop over the drained frames
ForLoopTurn == pc = "tap_batch" /\ idx <= Len(packets)

\* C9, the batching rule: in a turn of the for loop the current batch is
\* yielded and a new batch started with the next frame exactly when the batch
\* is non-empty and the frame, with its 2-byte prefix, would make it exceed
\* Ctx; in every other turn the frame joins the current batch and nothing is
\* yielded.
GreedyTurn ==
    ForLoopTurn =>
        IF current_batch # <<>> /\
           SerializedSize(current_batch) + 2 + Len(packets[idx]) > tx_length
           THEN /\ SentBatches(yields') =
                       SentBatches(yields) \o
                       (IF TxRejected' THEN <<>> ELSE <<Serialization(current_batch)>>)
                /\ pc' = "tap_batch" => current_batch' = <<packets[idx]>>
        ELSE /\ yields' = yields
             /\ pc' = "tap_batch"
             /\ current_batch' = Append(current_batch, packets[idx])

\* C9, the boundary: a single drained frame of Ctx - 2 bytes is yielded as one
\* batch of exactly Ctx bytes; a single drained frame of Ctx - 1 bytes is
\* refused by the Transport with BufferTooLarge(Ctx + 1, Ctx), nothing is
\* yielded and the loop has ended.
SingleFrameBoundary ==
    (Len(packets) = 1 /\ pc # "tap_batch") =>
        /\ Len(packets[1]) = tx_length - 2 =>
              /\ yields # <<>>
              /\ yields[1].tx = Serialization(packets)
              /\ Len(yields[1].tx) = tx_length
        /\ Len(packets[1]) = tx_length - 1 =>
              /\ pc = "error"
              /\ err = BufferTooLarge(tx_length + 1, tx_length)
              /\ yields = <<>>

\* C9: batching is greedy with a 2-byte prefix per frame, so a single frame of
\* Ctx - 2 bytes goes out as one batch of Ctx bytes and a single frame of
\* Ctx - 1 bytes is attempted alone and refused with BufferTooLarge, which
\* ends the loop.
C9_GreedyBatchingWithPrefix ==
    []SingleFrameBoundary /\ [][GreedyTurn]_vars

\* C9 (witness): a single frame of Ctx - 1 bytes was refused
C9_Witness ==
    /\ Len(packets) = 1 /\ Len(packets[1]) = tx_length - 1
    /\ pc = "error" /\ err = BufferTooLarge(tx_length + 1, tx_length)

\* An iteration has ended in which the TAP delivered no frame and the host
\* answered every yield with an empty RX payload
IdleIterationEnded ==
    /\ pc = "tap_iter_end"
    /\ packets = <<>>
    /\ \A i \in 1..Len(yields) : yields[i].rx_len = 0

\* A yield of the TAP loop without payload
EmptyTapYield(y) ==
    /\ y.tx = <<>> /\ y.reason = TAP_RXTX_CMD
    /\ y.dev = HTIF_DEVICE_YIELD /\ y.cmd = HTIF_YIELD_CMD_MANUAL

----------------------------------------------------------------------------
(* Cmio: properties *)

\* The fields of a descriptor word by their bit positions: device 63..56,
\* command 55..48, reason 47..32, data 31..0
DevField(w) == w[1]
CmdField(w) == w[2]
ReasonField(w) == from_be_bytes(SubSeq(w, 3, 4))
DataField(w) == from_be_bytes(SubSeq(w, 5, 8))

\* yield_with_buffer has returned and the caller has not gone on yet
Returned == pc = "cmio_returned"

\* C12: yield_with_buffer called with a TX payload longer than Ctx returns
\* BufferTooLarge(|tx|, Ctx), issues no YIELD ioctl and leaves every byte of
\* the TX buffer as it was; no YIELD ioctl announces a TX length above Ctx.
C12_OversizeTxRefusedBeforeYield ==
    /\ (Returned /\ Len(call.tx) > tx_length) =>
          /\ ret.err = BufferTooLarge(Len(call.tx), tx_length)
          /\ ioctl = <<>>
          /\ tx_buffer = call.tx_before
    /\ \A i \in 1..Len(ioctl) : DataField(ioctl[i].req) <= tx_length

\* C12 (witness): a payload one byte longer than the TX buffer was refused
C12_Witness ==
    /\ Returned
    /\ Len(call.tx) = tx_length + 1
    /\ ret.err = BufferTooLarge(tx_length + 1, tx_length)

\* C13: when the yield returns with response length n > Crx, yield_with_buffer
\* returns BufferTooLarge(n, Crx) and no payload; otherwise it returns the
\* first n bytes of the RX buffer and the reason of the host's word.  No
\* payload returned is longer than Crx.
C13_RxPayloadIsFirstNBytes ==
    /\ (Returned /\ ioctl # <<>> /\ ioctl[1].ok) =>
          LET n == DataField(ioctl[1].ans) IN
          IF n > rx_length
             THEN ret.err = BufferTooLarge(n, rx_length) /\ ret.rx = <<>>
          ELSE /\ ret.err = NoError
               /\ Len(ret.rx) = n
               /\ \A i \in 1..n : ret.rx[i] = rx_buffer[i]
               /\ ret.reason = ReasonField(ioctl[1].ans)
    /\ Len(ret.rx) <= rx_length

\* C13 (witness): the host filled the whole RX buffer and answered with a
\* reason other than the one of the request
C13_Witness ==
    /\ Returned /\ ioctl # <<>> /\ ioctl[1].ok
    /\ DataField(ioctl[1].ans) = rx_length
    /\ ret.rx = rx_buffer
    /\ ret.reason # call.reason

\* C14: for a TX payload p with |p| <= Ctx, when the YIELD ioctl is issued the
\* TX buffer holds p in bytes [0, |p|), its bytes [|p|, Ctx) are as they were
\* before the call, and the data field of the descriptor is |p|.
C14_TxBufferHoldsPayloadRestUntouched ==
    (Returned /\ Len(call.tx) <= tx_length) =>
        /\ Len(ioctl) = 1
        /\ Len(ioctl[1].tx) = tx_length
        /\ \A i \in 1..tx_length :
              ioctl[1].tx[i] = IF i <= Len(call.tx) THEN call.tx[i]
                               ELSE call.tx_before[i]
        /\ DataField(ioctl[1].req) = Len(call.tx)

\* C14 (witness): a payload shorter than the buffer was sent over the bytes of
\* an earlier payload
C14_Witness ==
    /\ Returned /\ ioctl # <<>>
    /\ call.tx # <<>>
    /\ Len(call.tx) < tx_length
    /\ call.tx_before[tx_length] \in {1, 2}
    /\ ioctl[1].tx[tx_length] = call.tx_before[tx_length]

\* Descriptors at the ends of the width of each field (data below 2^31) and
\* with a single field set
SampleDescriptors ==
    {CmioYield(0, 0, 0, 0), CmioYield(255, 255, 65535, 2147483647),
     CmioYield(255, 0, 0, 0), CmioYield(0, 255, 0, 0),
     CmioYield(0, 0, 65535, 0), CmioYield(0, 0, 0, 2147483647),
     CmioYield(HTIF_DEVICE_YIELD, HTIF_YIELD_CMD_MANUAL, TAP_RXTX_CMD, 65536),
     CmioYield(1, 128, 256, 16777217)}

\* The word w carries the four fields of y at their bit positions
Carries(w, y) ==
    /\ Len(w) = 8
    /\ DevField(w) = y.dev /\ CmdField(w) = y.cmd
    /\ ReasonField(w) = y.reason /\ DataField(w) = y.data

\* C15: the descriptor is packed as device in bits 63..56, command in 55..48,
\* reason in 47..32 and data in 31..0; unpacking a packed descriptor gives the
\* same four values; after the ioctl every field of the descriptor is the
\* field of the host's word at the same bits.
C15_DescriptorWordLayout ==
    /\ \A y \in SampleDescriptors :
          /\ Carries(packed(y), y)
          /\ unpacked(packed(y)) = y
    /\ \A i \in 1..Len(ioctl) :
          /\ Carries(ioctl[i].req,
                     CmioYield(call.dev, call.cmd, call.reason, Len(call.tx)))
          /\ ioctl[i].ok => Carries(ioctl[i].ans, ioctl[i].desc)

\* C15 (witness): the host answered with a word that changes every field
C15_Witness ==
    /\ Returned /\ ioctl # <<>> /\ ioctl[1].ok
    /\ call.reason = 65535
    /\ ioctl[1].desc = CmioYield(255, 254, 258, 65536)

\* C16: on every exit path of the transport, a failure of Cmio::new at any
\* step or the drop of an opened handle, no mapping remains and the device
\* descriptor is closed.
C16_NothingHeldOnExit ==
    pc \in {"error", "cmio_dropped"} => held = {}

----------------------------------------------------------------------------
(* TAP adapter: properties of process_received_data *)

\* t does not hold a complete record: it is empty, or shorter than a length
\* prefix, or shorter than the body its prefix declares
TruncatedRecord(t) ==
    \/ Len(t) < 2
    \/ from_be_bytes(SubSeq(t, 1, 2)) > Len(t) - 2

\* The bytes of the payload after the records that were sent to the TAP
TailAfter(d, sent) == SubSeq(d, Len(Serialization(sent)) + 1, Len(d))

\* C11: process_received_data sends to the TAP the complete records
\* u16_be(len) || bytes(len) of the payload, one send per record, in payload
\* order, and returns without error at the first record whose prefix or body
\* is cut short (or at the end of the payload), the tail being dropped; when a
\* send fails, the sends made are the records before it.
C11_InjectSendsCompleteRecords ==
    /\ pc \in {"inject_done", "error"} =>
          SubSeq(data, 1, Len(Serialization(injected))) = Serialization(injected)
    /\ pc = "inject_done" => TruncatedRecord(TailAfter(data, injected))
    /\ pc = "error" => ~TruncatedRecord(TailAfter(data, injected))

\* C11 (witness): two records were sent and a tail of one byte dropped
C11_Witness ==
    /\ pc = "inject_done"
    /\ Len(injected) = 2
    /\ Len(TailAfter(data, injected)) = 1

----------------------------------------------------------------------------
(* SocketMessage: properties *)

DefaultIp == <<0, 0, 0, 0>>

\* C17: deserialize(serialize(M)) succeeds and keeps msg_type and conn_id; a
\* UNIX_CONNECT keeps its path, a TCP_CONNECT its ip and port, every other
\* type its data (empty data and data of 1024 bytes included); the fields the
\* type has no use for come back as empty path, ip 0.0.0.0, port 0, empty data.
C17_RoundTripKeepsMeaningfulFields ==
    pc = "deserialized" =>
        LET m == test_message
            r == deserialized.msg
        IN /\ deserialized.ok
           /\ r.msg_type = m.msg_type /\ r.socket_id = m.socket_id
           /\ r.path = IF m.msg_type = MSG_TYPE_UNIX_CONNECT THEN m.path ELSE <<>>
           /\ r.ip_addr = IF m.msg_type = MSG_TYPE_TCP_CONNECT THEN m.ip_addr
                          ELSE DefaultIp
           /\ r.port = IF m.msg_type = MSG_TYPE_TCP_CONNECT THEN m.port ELSE 0
           /\ r.data = IF m.msg_type \in {MSG_TYPE_UNIX_CONNECT, MSG_TYPE_TCP_CONNECT}
                          THEN <<>> ELSE m.data

\* C17 (witness): a TCP_CONNECT to 10.0.0.1:443 built with a path and data came
\* back with its ip and port, and with neither path nor data
C17_Witness ==
    /\ pc = "deserialized"
    /\ test_message.msg_type = MSG_TYPE_TCP_CONNECT
    /\ test_message.path # <<>> /\ test_message.data # <<>>
    /\ deserialized.msg.ip_addr = <<10, 0, 0, 1>> /\ deserialized.msg.port = 443
    /\ deserialized.msg.path = <<>> /\ deserialized.msg.data = <<>>

\* The bytes at the cursor of process_received_data
Slice == SubSeq(data, offset + 1, Len(data))

\* d is shorter than the message it declares
ShortOfDeclared(d) ==
    \/ Len(d) < 5
    \/ /\ d[1] = MSG_TYPE_UNIX_CONNECT
       /\ (Len(d) < 6 \/ Len(d) - 6 < d[6])
    \/ /\ d[1] = MSG_TYPE_TCP_CONNECT
       /\ Len(d) - 5 < 6
    \/ /\ d[1] \notin {MSG_TYPE_UNIX_CONNECT, MSG_TYPE_TCP_CONNECT}
       /\ (Len(d) - 5 < 4 \/ Len(d) - 9 < from_be_bytes(SubSeq(d, 6, 9)))

\* C18, deserialize: on an input shorter than the message it declares it
\* returns an error, and it never reads past the end of its input.
ShortInputIsAnError ==
    InLoop =>
        /\ ShortOfDeclared(Slice) => ~Decoded.ok
        /\ deserialize_reads(Slice) <= Len(Slice)

\* C18, the multiplexer: such an error ends the loop with the error, no
\* response is added and no yield issued.
ShortInputIsFatal ==
    (InLoop /\ ShortOfDeclared(Slice)) =>
        /\ pc' = "error" /\ err' = SetupError
        /\ yields' = yields /\ responses' = responses
        /\ unix_connections' = unix_connections
        /\ tcp_connections' = tcp_connections

\* C18: deserialize returns an error, and never reads past the end of its
\* input, whenever the input is shorter than the message it declares (fewer
\* than 5 header bytes; a UNIX_CONNECT without path_len byte or with fewer than
\* path_len path bytes; a TCP_CONNECT with fewer than 6 address bytes; any
\* other type with fewer than 4 length bytes or data_len above the bytes
\* left); in the multiplexer the error is fatal to the loop.
C18_ShortInputIsAFatalError ==
    []ShortInputIsAnError /\ [][ShortInputIsFatal]_vars

\* C18 (witness): a UNIX_SEND that declares one byte of data and holds none,
\* after a message that was answered, has ended the loop
C18_Witness ==
    /\ pc = "error" /\ err = SetupError
    /\ Len(respList) = 1
    /\ offset < Len(data)
    /\ Slice = <<MSG_TYPE_UNIX_SEND, 0, 0, 0, 1, 0, 0, 0, 1>>

----------------------------------------------------------------------------
(* Socket multiplexer: properties of SEND and RECEIVE *)

\* The while loop is about to dispatch a message of this type
Dispatching(msg_type) == InLoop /\ Decoded.ok /\ Decoded.msg.msg_type = msg_type

\* The handler answered and the loop goes on
Answered(resp) ==
    /\ pc' = "process"
    /\ respList' = Append(respList, resp)
    /\ responses' = responses \o resp

\* The handler returned an error: no response, and the loop has ended
Fatal ==
    /\ pc' = "error" /\ err' = SetupError
    /\ respList' = respList /\ responses' = responses /\ yields' = yields

TablesUnchanged ==
    unix_connections' = unix_connections /\ tcp_connections' = tcp_connections

\* A response with a data payload: msg_type, conn_id, data_len, data
DataResponse(msg_type, id, d) ==
    <<msg_type>> \o to_be_bytes(id, 4) \o to_be_bytes(Len(d), 4) \o d

\* What C19 says of a SEND of this type against the table of its kind
SendEffect(msg_type, table) ==
    Dispatching(msg_type) =>
        LET id == Decoded.msg.socket_id
            io == dispatched'[Len(dispatched')].env
        IN /\ TablesUnchanged
           /\ IF id \notin DOMAIN table
                 THEN Answered(StatusResponse(msg_type, id, 1))
              ELSE IF io = "written"
                 THEN Answered(StatusResponse(msg_type, id, 0))
              ELSE Fatal

\* C19: a UNIX_SEND / TCP_SEND on an id absent from the table of its kind
\* answers status 1, is not fatal and changes no table; on a present id whose
\* write succeeds it answers status 0; on a present id whose write fails no
\* response is produced and the error ends the loop.
C19_SendStatusAndFatalWrite ==
    [][ /\ SendEffect(MSG_TYPE_UNIX_SEND, unix_connections)
        /\ SendEffect(MSG_TYPE_TCP_SEND, tcp_connections) ]_vars

\* C19 (witness): the write of a TCP_SEND on a connected id failed and the
\* loop has ended without a response to it
C19_Witness ==
    /\ pc = "error"
    /\ dispatched # <<>>
    /\ Last(dispatched).msg.msg_type = MSG_TYPE_TCP_SEND
    /\ Last(dispatched).msg.socket_id \in DOMAIN tcp_connections
    /\ Last(dispatched).env = "write_failed"
    /\ Len(respList) = Len(dispatched) - 1

\* The stream.read of a RECEIVE of this type returns in this step, at once or
\* after the guest has slept in it
ReceiveReturns(msg_type) ==
    /\ Dispatching(msg_type) \/ (pc = "blocked_read" /\ Decoded.msg.msg_type = msg_type)
    /\ pc' # "blocked_read"

\* What C20 says of a RECEIVE of this type against the table of its kind
ReceiveEffect(msg_type, table) ==
    ReceiveReturns(msg_type) =>
        LET id == Decoded.msg.socket_id
            io == dispatched'[Len(dispatched')].env
        IN /\ TablesUnchanged
           /\ id \in DOMAIN table =>
                 IF io.kind = "WouldBlock"
                    THEN Answered(DataResponse(msg_type, id, <<>>))
                 ELSE IF io.kind = "ok"
                    THEN /\ Answered(DataResponse(msg_type, id, io.bytes))
                         /\ Len(io.bytes) <= ReadBufferLen
                 ELSE Fatal

\* C20: a UNIX_RECEIVE / TCP_RECEIVE on a present id answers with data_len = 0
\* when the stream reports would-block, with exactly the n <= 4096 bytes read
\* when the read returns n bytes, and ends the loop on any other read error;
\* a RECEIVE changes neither table.
C20_ReceiveDataWouldBlockAndFatalRead ==
    [][ /\ ReceiveEffect(MSG_TYPE_UNIX_RECEIVE, unix_connections)
        /\ ReceiveEffect(MSG_TYPE_TCP_RECEIVE, tcp_connections) ]_vars

\* C20 (witness): a TCP_RECEIVE on a connected id met would-block and was
\* answered with data_len = 0
C20_Witness ==
    /\ pc = "process"
    /\ dispatched # <<>>
    /\ Last(dispatched).msg.msg_type = MSG_TYPE_TCP_RECEIVE
    /\ Last(dispatched).msg.socket_id \in DOMAIN tcp_connections
    /\ Last(dispatched).env.kind = "WouldBlock"
    /\ Last(respList) =
          <<MSG_TYPE_TCP_RECEIVE>> \o to_be_bytes(Last(dispatched).msg.socket_id, 4) \o
          <<0, 0, 0, 0>>

----------------------------------------------------------------------------
(* Socket multiplexer: where the guest can be suspended *)

\* C21: the guest is suspended only inside the yield ioctl: no request handler
\* waits for a peer; in particular a UNIX_RECEIVE on a connected stream with
\* nothing pending completes with a response without the guest sleeping in read.
C21_NoHandlerBlocksTheGuest == pc # "blocked_read"

----------------------------------------------------------------------------
(* Socket multiplexer: the yields of one iteration of run_loop *)

\* A yield with the triple of socket mode
SocketTriple(y) ==
    /\ y.dev = HTIF_DEVICE_YIELD
    /\ y.cmd = HTIF_YIELD_CMD_MANUAL
    /\ y.reason = UNIX_SOCKET_CMD

EmptySocketYield(y) == SocketTriple(y) /\ y.tx = <<>>

\* C22: an iteration of run_loop has issued no yield before its polling yield,
\* which is empty-payload and carries (HTIF_DEVICE_YIELD, HTIF_YIELD_CMD_MANUAL,
\* UNIX_SOCKET_CMD); when its RX payload is empty the iteration ends after
\* exactly one more such yield and without dispatching anything; when it is
\* non-empty the payload is the request batch being processed; every yield of
\* socket mode carries the triple.
C22_PollYieldThenIdleYieldOrBatch ==
    /\ \A i \in 1..Len(yields) : SocketTriple(yields[i])
    /\ pc = "poll" => yields = <<>>
    /\ yields # <<>> => EmptySocketYield(yields[1])
    /\ pc = "idle" => Len(yields) = 1 /\ yields[1].rx_len = 0
    /\ (pc = "iter_end" /\ yields[1].rx_len = 0) =>
          /\ Len(yields) = 2
          /\ EmptySocketYield(yields[2])
          /\ dispatched = <<>>
    /\ (yields # <<>> /\ yields[1].rx_len > 0) =>
          /\ pc \in {"process", "blocked_read", "iter_end", "error"}
          /\ Len(data) = yields[1].rx_len
          /\ data = BatchBytes(reqs)
          /\ pc = "iter_end" => dispatched # <<>>

\* C22 (witness): an idle iteration has ended after its two empty yields
C22_Witness ==
    /\ pc = "iter_end"
    /\ Len(yields) = 2
    /\ yields[1].rx_len = 0 /\ yields[2].tx = <<>>

----------------------------------------------------------------------------
(* main: the Cmio values alive *)

\* C23: at most one Cmio is open at any time; while the loop of network mode
\* runs the only one is the NetworkInterface's, and while the loop of socket
\* mode runs the only one is the SocketManager's.
C23_AtMostOneTransportHandle ==
    /\ Cardinality(handles) <= 1
    /\ pc = "net_run_loop" => handles = {"NetworkInterface"}
    /\ pc = "unix_run_loop" => handles = {"SocketManager"}

----------------------------------------------------------------------------
(* TAP adapter: what becomes of the RX payloads *)

\* C24: the RX payload of the last yield, when it is non-empty and nothing
\* failed, has been passed to process_received_data: the frames of its complete
\* records were sent to the TAP before the next yield is issued.  Every
\* non-empty RX payload of the model starts with a complete record.
C24_EveryRxPayloadIsInjected ==
    (yields # <<>> /\ pc # "error" /\ Last(yields).rx_len > 0) =>
        /\ injected # <<>>
        /\ SerializedSize(injected) <= Last(yields).rx_len

----------------------------------------------------------------------------
(* TAP adapter: the ingress drain *)

\* One of the two loops that yield until the RX payload is empty
InIngressDrain == pc \in {"tap_ingress", "tap_more"}

\* One turn of such a loop, as C25 describes it
IngressTurn ==
    InIngressDrain =>
        /\ pc' \in {pc, "tap_iter_end", "error"}
        /\ Len(yields') = Len(yields) + 1
        /\ EmptyTapYield(Last(yields'))
        /\ (pc' # "error" /\ Last(yields').rx_len > 0) =>
               pc' = pc /\ injected' # <<>>
        /\ (pc' # "error" /\ Last(yields').rx_len = 0) =>
               pc' = "tap_iter_end" /\ injected' = <<>>

\* The TAP is read again only from the end of an iteration
DrainOnlyAfterIterationEnd == pc' = "tap_drain" => pc = "tap_iter_end"

\* C25: once the batches of an iteration are sent the adapter issues
\* empty-payload yields with the TAP triple, injects each non-empty RX payload
\* and stays in the loop, and leaves it for the next read of the TAP only after
\* a yield that returned an empty RX payload; once in the loop it gets back to
\* draining the TAP (or ends with an error) when the host stops sending.
C25_IngressDrainUntilEmptyRx ==
    /\ [][IngressTurn /\ DrainOnlyAfterIterationEnd]_vars
    /\ []((pc = "tap_iter_end" /\ (packets # <<>> \/ yields[1].rx_len > 0)) =>
            (Last(yields).tx = <<>> /\ Last(yields).rx_len = 0))
    /\ (InIngressDrain ~> (pc \in {"tap_drain", "error"}))

\* C25 (witness): after a batch was sent the host answered two empty yields
\* with frames, which were injected, and the loop has not left the ingress drain
C25_Witness ==
    /\ pc = "tap_ingress"
    /\ packets # <<>>
    /\ Len(yields) >= 3
    /\ yields[1].tx = batch_buffer(packets)
    /\ yields[Len(yields) - 1].tx = <<>> /\ yields[Len(yields) - 1].rx_len > 0
    /\ Last(yields).tx = <<>> /\ Last(yields).rx_len > 0
    /\ injected # <<>>

----------------------------------------------------------------------------
(* Socket multiplexer: what becomes of the RX payloads *)

\* C26: when an iteration of run_loop ends, every yield of the iteration that
\* returned a non-empty RX payload was the polling yield and its payload was
\* decoded and dispatched: no yield returned a request batch that the loop
\* dropped.
C26_EveryRequestBatchIsDispatched ==
    pc = "iter_end" =>
        \A i \in 1..Len(yields) :
            yields[i].rx_len > 0 => (i = 1 /\ dispatched # <<>>)

----------------------------------------------------------------------------
(* Socket multiplexer: a batch that ends in a fatal error *)

\* process_received_data has returned an error from inside its while loop
FailedInBatch == pc = "error" /\ offset < Len(data)

\* The requests of the batch that were answered before the failing one
Handled == 1..Len(respList)

\* The entry made or removed by a handled request is still made or removed,
\* unless a later handled request changed the same id of the same table
LaterHandled(i, msg_type, id) ==
    \E j \in Handled :
        j > i /\ dispatched[j].msg.msg_type = msg_type /\ dispatched[j].msg.socket_id = id

EffectsRemain ==
    \A i \in Handled :
        LET m == dispatched[i].msg IN
        /\ (m.msg_type = MSG_TYPE_UNIX_CONNECT
              /\ ~LaterHandled(i, MSG_TYPE_UNIX_CLOSE, m.socket_id)) =>
               m.socket_id \in DOMAIN unix_connections
        /\ (m.msg_type = MSG_TYPE_UNIX_CLOSE
              /\ ~LaterHandled(i, MSG_TYPE_UNIX_CONNECT, m.socket_id)) =>
               m.socket_id \notin DOMAIN unix_connections
        /\ (m.msg_type = MSG_TYPE_TCP_CONNECT
              /\ ~LaterHandled(i, MSG_TYPE_TCP_CLOSE, m.socket_id)) =>
               m.socket_id \in DOMAIN tcp_connections
        /\ (m.msg_type = MSG_TYPE_TCP_CLOSE
              /\ ~LaterHandled(i, MSG_TYPE_TCP_CONNECT, m.socket_id)) =>
               m.socket_id \notin DOMAIN tcp_connections

\* The step in which the k-th request fails
FatalStep == pc \in {"process", "blocked_read"} /\ offset < Len(data) /\ pc' = "error"

\* C27: when process_received_data fails at the k-th request of a batch the
\* only yield of the iteration is the polling yield, so the k-1 responses
\* gathered were never sent; the failing step changes neither table, and the
\* entries that requests 1..k-1 inserted or removed stay inserted or removed.
C27_FatalErrorSendsNothingKeepsEffects ==
    /\ [](FailedInBatch =>
            /\ Len(yields) = 1 /\ yields[1].tx = <<>>
            /\ Len(dispatched) \in {Len(respList), Len(respList) + 1}
            /\ EffectsRemain)
    /\ [][FatalStep =>
            /\ TablesUnchanged
            /\ yields' = yields /\ respList' = respList /\ responses' = responses]_vars

\* C27 (witness): the first request of a batch was a CONNECT that made an
\* entry and was answered, the second request was fatal, and nothing was sent
C27_Witness ==
    /\ FailedInBatch
    /\ Len(respList) = 1
    /\ dispatched[1].msg.msg_type = MSG_TYPE_UNIX_CONNECT
    /\ dispatched[1].msg.socket_id \in DOMAIN unix_connections
    /\ responses # <<>>
    /\ Len(yields) = 1

----------------------------------------------------------------------------
(* Socket multiplexer: a request of an unknown type *)

\* The bytes at the cursor hold a whole message of a type outside 0x01..0x08
UnknownTypeAtCursor ==
    /\ InLoop
    /\ ~ShortOfDeclared(Slice)
    /\ Slice[1] \notin MSG_TYPE_UNIX_CONNECT..MSG_TYPE_TCP_CLOSE

\* deserialize reads it as type, id, data_len and data, and serialize gives
\* the same bytes back
DecodedAsDataMessage ==
    LET n == from_be_bytes(SubSeq(Slice, 6, 9)) IN
    /\ Decoded.ok
    /\ Decoded.msg.msg_type = Slice[1]
    /\ Decoded.msg.socket_id = from_be_bytes(SubSeq(Slice, 2, 5))
    /\ Decoded.msg.data = SubSeq(Slice, 10, 9 + n)
    /\ Decoded.msg.path = <<>>
    /\ serialize(Decoded.msg) = SubSeq(Slice, 1, 9 + n)
    /\ deserialize(serialize(Decoded.msg)) = Decoded

\* C28: a request whose type is none of 0x01..0x08 is decoded as a
\* data-carrying message whose type, id and data round-trip, and the dispatch
\* rejects it: the loop ends with an error, no response is added, no yield is
\* issued and neither connection table changes.
C28_UnknownTypeDecodedThenFatal ==
    /\ [](UnknownTypeAtCursor => DecodedAsDataMessage)
    /\ [][UnknownTypeAtCursor => (Fatal /\ TablesUnchanged)]_vars

\* C28 (witness): a request of type 9 with one byte of data was decoded after
\* an answered request and ended the loop while a connection was open
C28_Witness ==
    /\ pc = "error" /\ err = SetupError
    /\ Len(dispatched) = 2 /\ Len(respList) = 1
    /\ Last(dispatched).msg.msg_type = 9
    /\ Last(dispatched).msg.socket_id = 1
    /\ Last(dispatched).msg.data = <<7>>
    /\ DOMAIN unix_connections # {}

----------------------------------------------------------------------------
(* Socket multiplexer: a CONNECT on an id that is already connected *)

AllStreams(unix, tcp) == Streams("unix", unix) \cup Streams("tcp", tcp)

\* What C29 says of a successful CONNECT of this type on an id its table holds
ConnectReplaces(msg_type, kind, table, tableAfter) ==
    (Dispatching(msg_type) /\ Decoded.msg.socket_id \in DOMAIN table /\ pc' = "process") =>
        LET id == Decoded.msg.socket_id
            prior == <<kind, id, table[id][2]>>
            new == <<kind, id, tableAfter[id][2]>>
        IN /\ DOMAIN tableAfter = DOMAIN table
           /\ tableAfter[id][1] = Decoded.msg.path
           /\ new \notin AllStreams(unix_connections, tcp_connections)
           /\ \A x \in DOMAIN table \ {id} : tableAfter[x] = table[x]
           /\ prior \notin AllStreams(unix_connections', tcp_connections')
           /\ Cardinality(Streams(kind, tableAfter)) = Cardinality(DOMAIN tableAfter)

\* C29: a successful UNIX_CONNECT / TCP_CONNECT whose id is already in the
\* table of its kind leaves the table with the same ids, the id bound to the
\* path of the request and to the stream just opened, every other id bound as
\* before, the other table unchanged, and the stream the id was bound to
\* reachable from neither table.
C29_ConnectReplacesPriorEntry ==
    [][ /\ ConnectReplaces(MSG_TYPE_UNIX_CONNECT, "unix", unix_connections,
                           unix_connections')
        /\ ConnectReplaces(MSG_TYPE_TCP_CONNECT, "tcp", tcp_connections,
                           tcp_connections')
        /\ Dispatching(MSG_TYPE_UNIX_CONNECT) => tcp_connections' = tcp_connections
        /\ Dispatching(MSG_TYPE_TCP_CONNECT) => unix_connections' = unix_connections
      ]_vars

\* C29 (witness): a UNIX_CONNECT on id 1 was answered while id 1 was bound
\* to an earlier stream and id 2 was connected; id 1 is bound to the second
\* stream opened for it
C29_Witness ==
    /\ pc = "process"
    /\ dispatched # <<>>
    /\ Last(dispatched).msg.msg_type = MSG_TYPE_UNIX_CONNECT
    /\ Last(dispatched).msg.socket_id = 1
    /\ Last(dispatched).env = "connected"
    /\ DOMAIN unix_connections = {1, 2}
    /\ unix_connections[1][2] = 1

----------------------------------------------------------------------------
(* Socket multiplexer: what the host learns from the response to a RECEIVE *)

\* The reads that return data
DataReads == {ReadOutcome("ok", b) : b \in ReadData \ {<<>>}}

\* The response the RECEIVE handler of the message's type gives when the id is
\* in its table and the read returns `read`
ResponseWhenPresent(message, read) ==
    LET table == Insert(EmptyTable, message.socket_id, <<message.path, 0>>)
    IN IF message.msg_type = MSG_TYPE_UNIX_RECEIVE
          THEN handle_unix_receive(message, table, read).resp
       ELSE handle_tcp_receive(message, table, read).resp

\* C30: the response to a RECEIVE on an id that is not in the table of its
\* kind differs from every response that a RECEIVE with the same id gives when
\* the id is in the table and the read returns data.
C30_UnknownIdResponseIsDistinct ==
    ( /\ dispatched # <<>>
      /\ Len(respList) = Len(dispatched)
      /\ Last(dispatched).msg.msg_type \in {MSG_TYPE_UNIX_RECEIVE, MSG_TYPE_TCP_RECEIVE}
      /\ Last(dispatched).env.kind = "none" ) =>
        \A read \in DataReads :
            Last(respList) # ResponseWhenPresent(Last(dispatched).msg, read)

----------------------------------------------------------------------------
(* The two drive loops side by side *)

\* Either adapter has been constructed and its run_loop entered
InitLoops ==
    \/ InitSock /\ tx_length = SockCtx
    \/ InitTap /\ tx_length = MaxFrameLen + 2

NextLoops == NextSock \/ NextTap

SpecLoops == InitLoops /\ [][NextLoops]_vars

----------------------------------------------------------------------------
(* main: the yields of network mode *)

\* The bytes are whole records u16_be(len) || frame, one after the other
IsFrameBatch(tx) == tx = batch_buffer(records_from(tx, 0))

\* C31: every yield issued in network mode carries HTIF_DEVICE_YIELD,
\* HTIF_YIELD_CMD_MANUAL and TAP_RXTX_CMD, and its TX payload is empty or a
\* concatenation of length-prefixed frames.
C31_NetworkYieldsCarryTapTriple ==
    \A i \in 1..Len(yields) :
        /\ yields[i].dev = HTIF_DEVICE_YIELD
        /\ yields[i].cmd = HTIF_YIELD_CMD_MANUAL
        /\ yields[i].reason = TAP_RXTX_CMD
        /\ IsFrameBatch(yields[i].tx)

----------------------------------------------------------------------------
(* Socket multiplexer: the length of the path of a UNIX_CONNECT *)

\* C32: every UNIX_CONNECT that deserialize accepted and the dispatch handed
\* to handle_unix_connect has a path of at most MAX_PATH_LENGTH bytes: a longer
\* one is rejected by the decoder and reaches no handler.
C32_DispatchedPathWithinMaxPathLength ==
    \A i \in 1..Len(dispatched) :
        dispatched[i].msg.msg_type = MSG_TYPE_UNIX_CONNECT =>
            Len(dispatched[i].msg.path) <= MAX_PATH_LENGTH

----------------------------------------------------------------------------
(* The drive loops: how they end *)

\* Where SocketManager::run_loop and NetworkInterface::run_loop can be while
\* they have not returned
SockPositions == {"poll", "idle", "process", "blocked_read", "iter_end"}
TapPositions ==
    {"tap_drain", "tap_batch", "tap_ingress", "tap_check", "tap_more", "tap_idle",
     "tap_iter_end"}
LoopPositions == SockPositions \cup TapPositions

\* The loop is running, or it has returned an error
InLoopOrFailed ==
    /\ pc \in LoopPositions \cup {"error"}
    /\ pc = "error" <=> err # NoError

\* A step that does not fail stays in the loop it was taken in
StaysInLoop ==
    (pc \in LoopPositions /\ pc' # "error") =>
        /\ pc' \in LoopPositions
        /\ err' = NoError
        /\ pc \in TapPositions <=> pc' \in TapPositions

\* C33: neither run_loop returns Ok: a loop is at one of its positions and
\* has returned nothing, or it has returned, and then with an error; a step
\* taken from a position of a loop leads to a position of the same loop or to
\* the return with an error.
C33_LoopsReturnOnlyWithAnError ==
    []InLoopOrFailed /\ [][StaysInLoop]_vars

\* C33 (witness): an iteration of the TAP loop that sent a batch and drained
\* the ingress has ended without an error, and the loop has not returned
C33_Witness ==
    /\ pc = "tap_iter_end"
    /\ err = NoError
    /\ packets # <<>>
    /\ Len(yields) >= 2
    /\ Last(yields).rx_len = 0

====
